---- MODULE Spec2Model ----
(***************************************************************************)
(* ARM64NICDriver (src/unnamed/part_000): descriptor rings, the polling    *)
(* hot path (send_packet / receive_packet / reclaim_tx_descriptors) and    *)
(* the reset poll of initialize, together with a model of the NIC's DMA    *)
(* engine acting on the same rings.                                        *)
(*                                                                         *)
(* Scaling.  Ring sizes, the slot size and the width of the 16-bit length  *)
(* argument are scaled down; everything else (masks, bit values, register  *)
(* offsets, the reset retry budget) is as in the source.                   *)
(***************************************************************************)
EXTENDS Integers, Sequences, FiniteSets, TLC

\* ---------------------------------------------------------------- bounds
RingBits == 2        \* rings have 2^RingBits descriptors (2048 = 2^11 in the source)
SlotBytes == 2       \* bytes per buffer slot (9216 in the source)
LengthBits == 3      \* width of the uint16_t length argument (16 in the source)
MaxEvents == 7       \* calls and device events explored per behaviour
MaxConcCalls == 4    \* calls explored per behaviour when followed statement by statement
MaxRxFrames == 2     \* frames the device or a harness delivers per behaviour
MaxInits == 2        \* initialize calls per handle
MaxCleanups == 2     \* cleanup calls per handle
MaxLifeEvents == 4   \* calls and device events when initialize is repeated
MaxTwoEvents == 5    \* calls and device events on two handles together
MaxLenEvents == 4    \* calls and device events when every frame length is sent
MaxDownEvents == 3   \* calls and device events before and during a teardown
MaxUnreadyCalls == 2 \* send and receive calls on a handle that is not ready
MaxPollFrames == 5   \* frames a polling caller has to send, frames the wire delivers

\* ------------------------------------------------------ program constants
REG_CTRL == 0
REG_STATUS == 8
REG_RX_CTRL == 256
REG_TX_CTRL == 1024
REG_RX_DESC_BASE_LO == 10240
REG_RX_DESC_BASE_HI == 10244
REG_RX_DESC_LEN == 10248
REG_RX_DESC_HEAD == 10256
REG_RX_DESC_TAIL == 10264
REG_TX_DESC_BASE_LO == 14336
REG_TX_DESC_BASE_HI == 14340
REG_TX_DESC_LEN == 14344
REG_TX_DESC_HEAD == 14352
REG_TX_DESC_TAIL == 14360

CTRL_RESET == 2^26
CTRL_RX_ENABLE == 2^1
CTRL_TX_ENABLE == 2^0
DESC_STATUS_DD == 2^0
DESC_STATUS_EOP == 2^1

RX_RING_SIZE == 2^RingBits
TX_RING_SIZE == 2^RingBits
MAX_PACKET_SIZE == SlotBytes
UINT16_MAX == 2^LengthBits - 1
RESET_POLLS == 1000

Regs ==
    { REG_CTRL, REG_STATUS, REG_RX_CTRL, REG_TX_CTRL,
      REG_RX_DESC_BASE_LO, REG_RX_DESC_BASE_HI, REG_RX_DESC_LEN,
      REG_RX_DESC_HEAD, REG_RX_DESC_TAIL,
      REG_TX_DESC_BASE_LO, REG_TX_DESC_BASE_HI, REG_TX_DESC_LEN,
      REG_TX_DESC_HEAD, REG_TX_DESC_TAIL }

\* ------------------------------------------------------- bit arithmetic
RECURSIVE BitAnd(_, _)
BitAnd(a, b) ==
    IF a = 0 \/ b = 0 THEN 0
    ELSE (IF a % 2 = 1 /\ b % 2 = 1 THEN 1 ELSE 0) + 2 * BitAnd(a \div 2, b \div 2)

RECURSIVE BitOr(_, _)
BitOr(a, b) ==
    IF a = 0 THEN b
    ELSE IF b = 0 THEN a
    ELSE (IF a % 2 = 1 \/ b % 2 = 1 THEN 1 ELSE 0) + 2 * BitOr(a \div 2, b \div 2)

\* x & ~m for a mask m
BitClear(a, m) == a - BitAnd(a, m)

\* a cursor that stays where it is
advance_Stay(index, ringSize) == index
\* a cursor that skips a slot
advance_Skip(index, ringSize) == BitAnd(index + 2, ringSize - 1)
\* (index + 1) & (ringSize - 1)
advance(index, ringSize) == BitAnd(index + 1, ringSize - 1)

\* a tail that releases the slot just handed out
retreat_None(index, ringSize) == index
\* a tail that stays on the last slot
retreat_Fixed(index, ringSize) == ringSize - 1
\* (index - 1) & (ringSize - 1) in unsigned arithmetic: 0 - 1 wraps to the
\* all-ones word.  A 30-bit word stands for uint32_t; the mask keeps only the
\* low bits, which are the same for every word at least as wide as the ring.
retreat(index, ringSize) == BitAnd((index + 2^30 - 1) % 2^30, ringSize - 1)

\* ring positions from a (inclusive) to b (exclusive), in ring order
RingDist(a, b, ringSize) == (b - a + ringSize) % ringSize
RingRange(a, b, ringSize) ==
    { (a + k) % ringSize : k \in 0 .. (RingDist(a, b, ringSize) - 1) }

\* ------------------------------------------------------------ memory model
\* A byte that was never written since aligned_alloc returned the region.
Indeterminate == 0

\* An address is a buffer pool and a byte offset into it (get_physical_addr is
\* the identity on virtual addresses); memset leaves the null address.
NullAddr == [pool |-> "null", off |-> 0]
TxAddr(off) == [pool |-> "tx", off |-> off]
RxAddr(off) == [pool |-> "rx", off |-> off]

ZeroTxDescriptor == [buffer_addr |-> NullAddr, cmd_type_len |-> 0, status |-> 0]
ZeroRxDescriptor == [buffer_addr |-> NullAddr, length |-> 0, status |-> 0]

\* memcpy(pool + off, data, n): byte k of data lands at off + k.  This is the
\* part of the copy that lies inside the pool; see Overruns for the rest.
Memcpy(pool, off, data, n) ==
    [a \in DOMAIN pool |->
        IF a >= off /\ a < off + n THEN data[a - off + 1] ELSE pool[a]]

\* A copy of n bytes to pool + off runs past the end of the allocation.  What
\* the bytes past the end do is undefined: they land in memory that belongs to
\* none of the rings and pools ("stray"), or the access faults and the call
\* never returns ("fault").
Overruns(pool, off, n) == \E k \in 0 .. n - 1 : off + k \notin DOMAIN pool
CopyOutcomes(pool, off, n) ==
    IF Overruns(pool, off, n) THEN {"stray", "fault"} ELSE {"inside"}

\* the n bytes a reader finds at pool + off (clipped at the end of the pool)
ReadBytes(pool, off, n) ==
    [k \in 1 .. n |->
        IF off + k - 1 \in DOMAIN pool THEN pool[off + k - 1] ELSE Indeterminate]

\* the k-th frame of a stream: n bytes, each the stream's k-th tag.  Tags run
\* through 1, 2, 3, so that neighbouring slots of a ring (whose size is a power
\* of two) and successive uses of one slot never carry the same tag.
Payload(k, n) == [j \in 1 .. n |-> 1 + (k % 3)]

\* lengths the caller passes to send_packet (any uint16_t is accepted)
Lengths == {1, MAX_PACKET_SIZE, UINT16_MAX}
\* lengths of frames arriving from the wire
WireLengths == {1, MAX_PACKET_SIZE}

NoFrame == [len |-> 0 - 1, data |-> << >>]
Frame(data, n) == [len |-> n, data |-> data]

VARIABLES
    \* ARM64NICDriver fields
    bar0_base_, rx_ring_, tx_ring_, rx_buffers_, tx_buffers_,
    rx_head_, tx_head_, tx_tail_, packets_received_, packets_sent_, initialized_,
    \* the device: its register file
    regs,
    \* position of the software thread inside a call, its locals, and the
    \* stores it has issued that are not yet visible to the device
    pc, loc, sb,
    \* history: calls made and their outcomes, hardware completions
    sendCalls, sendOk, recvCalls, recvOk, hwTxDone, reclaimed, last,
    \* history: whether some send_packet call was given more bytes than a slot holds
    oversized,
    \* history: frames the device or a harness stored into the RX ring
    hwRxDone,
    \* the process's resources: the BAR0 mapping and the four heap blocks the
    \* handle's pointers refer to, and what the calls did with them
    env,
    \* two handles in one process, each on a device of its own: the members
    \* and the device of each (inst), what each would hold had its operations
    \* run with no other handle in the process (alone), and the process (proc)
    inst, alone, proc,
    \* history: the frame accepted into each TX slot, the frame looped back
    \* into each RX slot
    sub, origin

driver == << bar0_base_, rx_ring_, tx_ring_, rx_buffers_, tx_buffers_,
             rx_head_, tx_head_, tx_tail_, packets_received_, packets_sent_,
             initialized_ >>
thread == << pc, loc, sb >>
history == << sendCalls, sendOk, recvCalls, recvOk, hwTxDone, reclaimed, last,
              oversized, hwRxDone, sub, origin >>
peers == << inst, alone, proc >>
vars == << driver, regs, thread, history, env, peers >>

NoLocals == [op |-> "none"]
\* The record of the last call: its outcome (ok), the slot it wrote or read,
\* the length and bytes handed over, for a receive the frame a harness looped
\* into the slot (src), and for a send what it found on entry: whether the
\* ring was full, the consumer index (oldest), whether that descriptor carried
\* its completion flag (dd), and the number of frames in flight once the full
\* check was over (infl), the slots in flight then (inflight) and the slots
\* whose buffer bytes or descriptor the call wrote (touched).  For a receive
\* dd tells whether the status word the call loaded carried the flag.
NoCall == [op |-> "none", ok |-> FALSE, slot |-> 0, len |-> 0, data |-> << >>,
           src |-> NoFrame, full |-> FALSE, oldest |-> 0, dd |-> FALSE, infl |-> 0,
           inflight |-> {}, touched |-> {}]

\* The resources of a process that has constructed the handle and nothing
\* else.  window is the state of the mapping bar0_base_ refers to ("none",
\* "live", "unmapped"), blocks the state of the heap block each pointer
\* refers to ("null", "live", "freed"); leaked counts mappings and blocks
\* that are live and that no pointer refers to any more, doubleFree the
\* free() calls on a freed block, badUnmap the munmap calls on a mapping that
\* is not live, strayMmio the register accesses through a window that is not
\* live; inits and cleanups count the calls.
Blocks == {"rx_ring_", "tx_ring_", "rx_buffers_", "tx_buffers_"}
NoResources ==
    [window |-> "none", blocks |-> [b \in Blocks |-> "null"], leaked |-> 0,
     doubleFree |-> 0, badUnmap |-> 0, strayMmio |-> 0, inits |-> 0, cleanups |-> 0]

\* the handles of a process that drives two devices
Instances == {1, 2}
\* a handle as its constructor leaves it, with the register file of its
\* device and the returns of the calls made on it so far
ConstructedInstance ==
    [rx_ring_ |-> << >>, tx_ring_ |-> << >>, rx_buffers_ |-> << >>, tx_buffers_ |-> << >>,
     rx_head_ |-> 0, tx_head_ |-> 0, tx_tail_ |-> 0,
     packets_received_ |-> 0, packets_sent_ |-> 0, initialized_ |-> FALSE,
     regs |-> [r \in Regs |-> 0], results |-> << >>]

\* ARM64NICDriver::ARM64NICDriver
Init ==
    /\ bar0_base_ = "nullptr"
    /\ rx_ring_ = << >>
    /\ tx_ring_ = << >>
    /\ rx_buffers_ = << >>
    /\ tx_buffers_ = << >>
    /\ rx_head_ = 0
    /\ tx_head_ = 0
    /\ tx_tail_ = 0
    /\ packets_received_ = 0
    /\ packets_sent_ = 0
    /\ initialized_ = FALSE
    /\ regs = [r \in Regs |-> 0]
    /\ pc = "constructed"
    /\ loc = NoLocals
    /\ sb = << >>
    /\ sendCalls = 0 /\ sendOk = 0 /\ recvCalls = 0 /\ recvOk = 0
    /\ hwTxDone = 0 /\ reclaimed = 0
    /\ last = NoCall
    /\ oversized = FALSE
    /\ hwRxDone = 0
    /\ env = NoResources
    /\ inst = [self \in Instances |-> ConstructedInstance]
    /\ alone = [self \in Instances |-> ConstructedInstance]
    /\ proc = [state |-> "running", events |-> 0]
    /\ sub = [i \in 0 .. TX_RING_SIZE - 1 |-> NoFrame]
    /\ origin = [i \in 0 .. RX_RING_SIZE - 1 |-> NoFrame]

\* ------------------------------------------------------------- initialize
FreshTxRing == [i \in 0 .. TX_RING_SIZE - 1 |-> ZeroTxDescriptor]
FreshRxRing == [i \in 0 .. RX_RING_SIZE - 1 |-> ZeroRxDescriptor]
FreshTxBuffers == [a \in 0 .. TX_RING_SIZE * MAX_PACKET_SIZE - 1 |-> Indeterminate]
FreshRxBuffers == [a \in 0 .. RX_RING_SIZE * MAX_PACKET_SIZE - 1 |-> Indeterminate]

\* allocate_rings: the four aligned_alloc calls in order; failAt = k makes the
\* k-th one return null (0: none fails), and the pointers after it keep the
\* value they had.  The RX descriptors get their buffer addresses only when
\* all four succeeded.
AllocRxRing(failAt) ==
    IF failAt = 1 THEN << >>
    ELSE IF failAt = 0
         THEN [i \in 0 .. RX_RING_SIZE - 1 |->
                  [ZeroRxDescriptor EXCEPT !.buffer_addr = RxAddr(i * MAX_PACKET_SIZE)]]
         ELSE FreshRxRing
AllocTxRing(failAt) ==
    IF failAt = 1 THEN tx_ring_ ELSE IF failAt = 2 THEN << >> ELSE FreshTxRing
AllocRxBuffers(failAt) ==
    IF failAt \in {1, 2} THEN rx_buffers_
    ELSE IF failAt = 3 THEN << >> ELSE FreshRxBuffers
AllocTxBuffers(failAt) ==
    IF failAt \in {1, 2, 3} THEN tx_buffers_
    ELSE IF failAt = 4 THEN << >> ELSE FreshTxBuffers

\* the position of each pointer in allocate_rings
BlockIndex == [b \in Blocks |->
                  CASE b = "rx_ring_" -> 1 [] b = "tx_ring_" -> 2
                    [] b = "rx_buffers_" -> 3 [] b = "tx_buffers_" -> 4]
\* the pointers allocate_rings assigns when its failAt-th allocation fails
AssignedBlocks(failAt) == { b \in Blocks : failAt = 0 \/ BlockIndex[b] <= failAt }

\* map_bar0 on the resources e: open fails ("nullptr", bar0_base_ keeps its
\* value), mmap fails ("MAP_FAILED") or succeeds ("mapped"); mmap's result is
\* assigned to bar0_base_ whatever it referred to before
MapEffect(e, mapRes) ==
    IF mapRes = "nullptr" THEN e
    ELSE [e EXCEPT !.window = IF mapRes = "mapped" THEN "live" ELSE "none",
                   !.leaked = @ + (IF e.window = "live" THEN 1 ELSE 0)]
\* allocate_rings on the resources e: each pointer assigned loses the block it
\* referred to
AllocEffect(e, failAt) ==
    [e EXCEPT !.blocks = [b \in Blocks |->
                             IF b \notin AssignedBlocks(failAt) THEN e.blocks[b]
                             ELSE IF BlockIndex[b] = failAt THEN "null" ELSE "live"],
              !.leaked = @ + Cardinality({ b \in AssignedBlocks(failAt) :
                                             e.blocks[b] = "live" })]

\* the register writes of initialize after allocate_rings, on a register file
\* r: ring geometry, then the two enable bits (read-modify-write)
ConfigureRxRing(r) ==
    [r EXCEPT ![REG_RX_DESC_BASE_LO] = 1,
              ![REG_RX_DESC_BASE_HI] = 0,
              ![REG_RX_DESC_LEN] = RX_RING_SIZE * 64,
              ![REG_RX_DESC_HEAD] = 0,
              ![REG_RX_DESC_TAIL] = RX_RING_SIZE - 1]
ConfigureTxRing(r) ==
    [r EXCEPT ![REG_TX_DESC_BASE_LO] = 2,
              ![REG_TX_DESC_BASE_HI] = 0,
              ![REG_TX_DESC_LEN] = TX_RING_SIZE * 64,
              ![REG_TX_DESC_HEAD] = 0,
              ![REG_TX_DESC_TAIL] = 0]
ConfigureRings(r) == ConfigureTxRing(ConfigureRxRing(r))
EnableRx(r) == [r EXCEPT ![REG_RX_CTRL] = BitOr(r[REG_RX_CTRL], CTRL_RX_ENABLE)]
EnableTx(r) == [r EXCEPT ![REG_TX_CTRL] = BitOr(r[REG_TX_CTRL], CTRL_TX_ENABLE)]
EnablePaths(r) == EnableTx(EnableRx(r))

\* The device's reset: every register returns to its reset value, the data
\* paths are off and CTRL_RESET reads clear.
DeviceReset(r) == [x \in Regs |-> 0]

\* where the handle stands after an initialize that failed: a handle that was
\* never ready stays unusable ("failed"); one that was ready keeps taking hot
\* path calls ("idle") unless bar0_base_ or a ring pointer is now invalid
\* ("broken")
AfterFailedInitialize(mapRes, failAt) ==
    IF ~initialized_ THEN "failed"
    ELSE IF mapRes = "MAP_FAILED" \/ (mapRes = "mapped" /\ failAt \in {1, 2})
         THEN "broken"
         ELSE IF pc = "broken" THEN "broken" ELSE "idle"

InitRecord(ok) == [NoCall EXCEPT !.op = "initialize", !.ok = ok]

\* initialize() as one step.  mapRes is what map_bar0 does ("nullptr": open
\* failed, "MAP_FAILED": mmap failed, "mapped"), resetOk whether the device
\* cleared CTRL_RESET within the retry budget, failAt the allocation that
\* fails.
InitializeEffect(mapRes, resetOk, failAt) ==
    /\ bar0_base_' = IF mapRes = "nullptr" THEN bar0_base_ ELSE mapRes
    /\ IF mapRes # "mapped"
       THEN /\ pc' = AfterFailedInitialize(mapRes, 0)
            /\ env' = [MapEffect(env, mapRes) EXCEPT !.inits = @ + 1]
            /\ last' = InitRecord(FALSE)
            /\ UNCHANGED << rx_ring_, tx_ring_, rx_buffers_, tx_buffers_,
                            initialized_, regs >>
       ELSE IF ~resetOk
       THEN /\ pc' = AfterFailedInitialize(mapRes, 0)
            /\ regs' = [regs EXCEPT ![REG_CTRL] = CTRL_RESET]
            /\ env' = [MapEffect(env, mapRes) EXCEPT !.inits = @ + 1]
            /\ last' = InitRecord(FALSE)
            /\ UNCHANGED << rx_ring_, tx_ring_, rx_buffers_, tx_buffers_,
                            initialized_ >>
       ELSE /\ rx_ring_' = AllocRxRing(failAt)
            /\ tx_ring_' = AllocTxRing(failAt)
            /\ rx_buffers_' = AllocRxBuffers(failAt)
            /\ tx_buffers_' = AllocTxBuffers(failAt)
            /\ env' = [AllocEffect(MapEffect(env, mapRes), failAt)
                          EXCEPT !.inits = @ + 1]
            /\ IF failAt # 0
               THEN /\ pc' = AfterFailedInitialize(mapRes, failAt)
                    /\ regs' = DeviceReset(regs)
                    /\ last' = InitRecord(FALSE)
                    /\ UNCHANGED initialized_
               ELSE /\ pc' = "idle"
                    /\ regs' = EnablePaths(ConfigureRings(DeviceReset(regs)))
                    /\ last' = InitRecord(TRUE)
                    /\ initialized_' = TRUE
    /\ UNCHANGED << rx_head_, tx_head_, tx_tail_, packets_received_, packets_sent_,
                    loc, sb, sendCalls, oversized, sendOk, recvCalls, recvOk,
                    hwTxDone, hwRxDone, reclaimed, peers >>

\* the first initialize() on a handle: the frame history starts empty
Initialize(mapRes, resetOk, failAt) ==
    /\ pc = "constructed"
    /\ InitializeEffect(mapRes, resetOk, failAt)
    /\ UNCHANGED << sub, origin >>

\* frames the device has stored into the RX ring so far
RxDelivered == hwRxDone

\* calls made and device events so far
Events == sendCalls + recvCalls + hwTxDone + RxDelivered

\* ---------------------------------------------------------------- hot path
\* a completion test that takes every descriptor for completed
HasDD_Always(status) == TRUE

\* desc->status & DESC_STATUS_DD
HasDD(status) == BitAnd(status, DESC_STATUS_DD) # 0

\* reclaim_tx_descriptors: the value of tx_head_ when the loop exits
RECURSIVE reclaim_tx_descriptors(_, _, _)
\* a reclamation that never advances the consumer index
reclaim_tx_descriptors_Skipped(head, tail, ring) == head
\* a reclamation that takes every descriptor up to the producer index for
\* completed
reclaim_tx_descriptors_ToTail(head, tail, ring) == tail

reclaim_tx_descriptors(head, tail, ring) ==
    IF head = tail THEN head
    ELSE IF ~HasDD(ring[head].status) THEN head
    ELSE reclaim_tx_descriptors(advance(head, TX_RING_SIZE), tail, ring)

\* variants of the ring-full test: one slot too early, never, and when the
\* producer index itself meets the consumer index
TxRingFull_OneEarly(next_tail, head) ==
    next_tail = head \/ advance(next_tail, TX_RING_SIZE) = head
TxRingFull_Never(next_tail, head) == FALSE
TxRingFull_TailMeetsHead(next_tail, head) == retreat(next_tail, TX_RING_SIZE) = head

\* a second test that reuses the outcome of the first
TxRingFull_BeforeReclaim(next_tail, head) == next_tail = tx_head_

\* the ring-full test of send_packet
TxRingFull(next_tail, head) == next_tail = head

\* a reclamation that runs on every call
HeadAfterFullCheck_Always(next_tail) ==
    reclaim_tx_descriptors(tx_head_, tx_tail_, tx_ring_)
\* a full check that reports the ring full without reclaiming
HeadAfterFullCheck_NoReclaim(next_tail) == tx_head_

\* tx_head_ after the full check of send_packet: reclamation runs only when
\* the first test finds the ring full
HeadAfterFullCheck(next_tail) ==
    IF TxRingFull(next_tail, tx_head_)
    THEN reclaim_tx_descriptors(tx_head_, tx_tail_, tx_ring_)
    ELSE tx_head_

\* TX buffers packed by index instead of by slot
TxSlotOffset_Packed(index) == index
\* tx_buffer = tx_buffers_ + (tx_tail_ * MAX_PACKET_SIZE)
TxSlotOffset(index) == index * MAX_PACKET_SIZE
\* RX buffers packed by index instead of by slot
RxSlotOffset_Packed(index) == index
\* *packet_out = rx_buffers_ + (rx_head_ * MAX_PACKET_SIZE)
RxSlotOffset(index) == index * MAX_PACKET_SIZE

\* desc->cmd_type_len = length | DESC_STATUS_EOP
CmdTypeLen(length) == BitOr(length, DESC_STATUS_EOP)

\* the descriptor send_packet leaves at the producer index
FilledTxDescriptor(index, length) ==
    [buffer_addr |-> TxAddr(TxSlotOffset(index)),
     cmd_type_len |-> CmdTypeLen(length),
     status |-> 0]

\* a counter that counts every success twice
Increment_Twice(counter) == counter + 2
\* a counter that starts again from zero
Increment_Wrap(counter) == (counter + 1) % 2

\* packets_sent_++ / packets_received_++ (uint64_t: the wrap at 2^64 is out of
\* reach of MaxEvents)
Increment(counter) == counter + 1

\* the TX slots a memcpy of n bytes to the slot at index writes into
TouchedSlots(index, n) ==
    { a \div MAX_PACKET_SIZE :
        a \in { x \in TxSlotOffset(index) .. TxSlotOffset(index) + n - 1 :
                  x < TX_RING_SIZE * MAX_PACKET_SIZE } }

\* what a send_packet call found and did, for the history
SendRecord(ok, length, next_tail, head, entry) ==
    [NoCall EXCEPT
        !.op = "send", !.ok = ok, !.slot = tx_tail_, !.len = length,
        !.full = entry.full, !.oldest = entry.oldest, !.dd = entry.dd,
        !.infl = sendOk - reclaimed - RingDist(tx_head_, head, TX_RING_SIZE),
        !.inflight = RingRange(head, tx_tail_, TX_RING_SIZE),
        !.touched = IF ok THEN TouchedSlots(tx_tail_, length) \cup {tx_tail_} ELSE {}]
\* what send_packet finds on entry
SendEntry(next_tail) ==
    [full |-> TxRingFull(next_tail, tx_head_), oldest |-> tx_head_,
     dd |-> HasDD(tx_ring_[tx_head_].status)]
RecvRecord(ok, slot, n, data, src, status) ==
    [NoCall EXCEPT
        !.op = "recv", !.ok = ok, !.slot = slot, !.len = n, !.data = data,
        !.src = src, !.dd = HasDD(status)]

\* the record of a send_packet call that faulted inside its copy
FaultRecord(length) ==
    [NoCall EXCEPT !.op = "fault", !.slot = tx_tail_, !.len = length,
                   !.touched = TouchedSlots(tx_tail_, length)]

\* send_packet(data, length), run to completion
send_packet(data, length) ==
    /\ pc = "idle" /\ initialized_
    /\ Events < MaxEvents
    /\ LET next_tail == advance(tx_tail_, TX_RING_SIZE)
           head == HeadAfterFullCheck(next_tail)
       IN  /\ tx_head_' = head
           /\ reclaimed' = reclaimed + RingDist(tx_head_, head, TX_RING_SIZE)
           /\ sendCalls' = sendCalls + 1
           /\ oversized' = (oversized \/ length > MAX_PACKET_SIZE)
           /\ IF TxRingFull(next_tail, head)
              THEN /\ last' = SendRecord(FALSE, length, next_tail, head, SendEntry(next_tail))
                   /\ UNCHANGED << tx_buffers_, tx_ring_, tx_tail_, regs,
                                   packets_sent_, sendOk, sub, pc >>
              ELSE \E outcome \in CopyOutcomes(tx_buffers_, TxSlotOffset(tx_tail_), length) :
                   /\ tx_buffers_' =
                          Memcpy(tx_buffers_, TxSlotOffset(tx_tail_), data, length)
                   /\ IF outcome = "fault"
                      THEN /\ pc' = "faulted"
                           /\ last' = FaultRecord(length)
                           /\ UNCHANGED << tx_ring_, tx_tail_, regs, packets_sent_,
                                           sendOk, sub >>
                      ELSE /\ tx_ring_' = [tx_ring_ EXCEPT
                                      ![tx_tail_] = FilledTxDescriptor(tx_tail_, length)]
                           /\ tx_tail_' = next_tail
                           /\ regs' = [regs EXCEPT ![REG_TX_DESC_TAIL] = next_tail]
                           /\ packets_sent_' = Increment(packets_sent_)
                           /\ sendOk' = sendOk + 1
                           /\ sub' = [sub EXCEPT ![tx_tail_] = Frame(data, length)]
                           /\ last' = SendRecord(TRUE, length, next_tail, head,
                                                 SendEntry(next_tail))
                           /\ UNCHANGED pc
    /\ UNCHANGED << bar0_base_, rx_ring_, rx_buffers_, rx_head_, packets_received_,
                    initialized_, loc, sb, recvCalls, recvOk, hwTxDone, hwRxDone,
                    origin, env, peers >>

\* receive_packet(&packet, &len), run to completion.  The caller's view of
\* the packet is the len_out bytes found at packet_out when the call returns.
receive_packet ==
    /\ pc = "idle" /\ initialized_
    /\ Events < MaxEvents
    /\ recvCalls' = recvCalls + 1
    /\ LET desc == rx_ring_[rx_head_]
           next_head == advance(rx_head_, RX_RING_SIZE)
       IN  IF ~HasDD(desc.status)
           THEN /\ last' = RecvRecord(FALSE, rx_head_, 0, << >>, NoFrame, desc.status)
                /\ UNCHANGED << rx_ring_, rx_head_, regs, packets_received_,
                                recvOk, origin >>
           ELSE /\ rx_ring_' = [rx_ring_ EXCEPT ![rx_head_].status = 0]
                /\ rx_head_' = next_head
                /\ regs' = [regs EXCEPT
                               ![REG_RX_DESC_TAIL] = retreat(next_head, RX_RING_SIZE)]
                /\ packets_received_' = Increment(packets_received_)
                /\ recvOk' = recvOk + 1
                /\ origin' = [origin EXCEPT ![rx_head_] = NoFrame]
                /\ last' = RecvRecord(TRUE, rx_head_, desc.length,
                                       ReadBytes(rx_buffers_, RxSlotOffset(rx_head_),
                                                 desc.length),
                                       origin[rx_head_], desc.status)
    /\ UNCHANGED << bar0_base_, tx_ring_, tx_buffers_, rx_buffers_, tx_head_,
                    tx_tail_, packets_sent_, initialized_, thread, sendCalls, oversized,
                    sendOk, hwTxDone, hwRxDone, reclaimed, sub, env, peers >>

\* ------------------------------------------------------------ the device
RxEnabled == BitAnd(regs[REG_RX_CTRL], CTRL_RX_ENABLE) # 0
TxEnabled == BitAnd(regs[REG_TX_CTRL], CTRL_TX_ENABLE) # 0

\* TX descriptors published through the tail register and not yet written back
HwTxOwned ==
    { i \in RingRange(regs[REG_TX_DESC_HEAD], regs[REG_TX_DESC_TAIL], TX_RING_SIZE) :
        ~HasDD(tx_ring_[i].status) }
\* RX descriptors released to the device through the tail register
HwRxOwned ==
    RingRange(regs[REG_RX_DESC_HEAD], regs[REG_RX_DESC_TAIL], RX_RING_SIZE)

\* the head register moves past every descriptor written back so far
RECURSIVE HwTxHead(_, _, _)
HwTxHead(head, tail, ring) ==
    IF head = tail \/ ~HasDD(ring[head].status) THEN head
    ELSE HwTxHead(advance(head, TX_RING_SIZE), tail, ring)

\* The DMA engine transmitted the frame of published descriptor i and writes
\* the completion flag back (write-backs may land out of ring order).
HwTxComplete(i) ==
    /\ TxEnabled
    /\ Events < MaxEvents
    /\ i \in HwTxOwned
    /\ tx_ring_' = [tx_ring_ EXCEPT ![i].status = BitOr(@, DESC_STATUS_DD)]
    /\ regs' = [regs EXCEPT ![REG_TX_DESC_HEAD] =
                   HwTxHead(@, regs[REG_TX_DESC_TAIL], tx_ring_')]
    /\ hwTxDone' = hwTxDone + 1
    /\ UNCHANGED << bar0_base_, rx_ring_, rx_buffers_, tx_buffers_, rx_head_,
                    tx_head_, tx_tail_, packets_received_, packets_sent_,
                    initialized_, thread, sendCalls, oversized, sendOk, recvCalls,
                    recvOk, hwRxDone, reclaimed, last, sub, origin, env, peers >>

\* DMA of n bytes to the buffer a descriptor names
DmaWrite(pool, addr, data, n) ==
    IF addr.pool = "rx" THEN Memcpy(pool, addr.off, data, n) ELSE pool

\* The DMA engine stores a frame from the wire into the next released RX
\* descriptor and sets its completion flag.
HwRxDeliver(data, n) ==
    /\ RxEnabled
    /\ Events < MaxEvents /\ RxDelivered < MaxRxFrames
    /\ regs[REG_RX_DESC_HEAD] \in HwRxOwned
    /\ LET j == regs[REG_RX_DESC_HEAD]
       IN  /\ rx_buffers_' = DmaWrite(rx_buffers_, rx_ring_[j].buffer_addr, data, n)
           /\ rx_ring_' = [rx_ring_ EXCEPT
                              ![j].length = n,
                              ![j].status = BitOr(DESC_STATUS_DD, DESC_STATUS_EOP)]
           /\ regs' = [regs EXCEPT ![REG_RX_DESC_HEAD] = advance(j, RX_RING_SIZE)]
           /\ origin' = [origin EXCEPT ![j] = NoFrame]
    /\ hwRxDone' = hwRxDone + 1
    /\ UNCHANGED << bar0_base_, tx_ring_, tx_buffers_, rx_head_, tx_head_, tx_tail_,
                    packets_received_, packets_sent_, initialized_, thread,
                    sendCalls, oversized, sendOk, recvCalls, recvOk, hwTxDone,
                    reclaimed, last, sub, env, peers >>

\* How a loopback harness can read the frame length out of a TX descriptor:
\* the low 16 bits of cmd_type_len as they are, or with the EOP bit cleared.
Decoders == {"low16", "clearEOP"}
DecodeLength(dec, cmd_type_len) ==
    (IF dec = "low16" THEN cmd_type_len ELSE BitClear(cmd_type_len, DESC_STATUS_EOP))
        % (UINT16_MAX + 1)

\* Loopback harness: copy the buffer of published TX slot i into the RX slot
\* the device fills next, take the RX length from the TX descriptor and set
\* the RX completion flag.
HarnessLoopback(i, dec) ==
    /\ RxEnabled /\ TxEnabled
    /\ Events < MaxEvents /\ RxDelivered < MaxRxFrames
    /\ i \in HwTxOwned
    /\ regs[REG_RX_DESC_HEAD] \in HwRxOwned
    /\ regs[REG_RX_DESC_HEAD] = rx_head_
    /\ LET j == regs[REG_RX_DESC_HEAD]
           slot == ReadBytes(tx_buffers_, tx_ring_[i].buffer_addr.off, MAX_PACKET_SIZE)
       IN  /\ rx_buffers_' = DmaWrite(rx_buffers_, rx_ring_[j].buffer_addr, slot,
                                      MAX_PACKET_SIZE)
           /\ rx_ring_' = [rx_ring_ EXCEPT
                              ![j].length = DecodeLength(dec, tx_ring_[i].cmd_type_len),
                              ![j].status = BitOr(DESC_STATUS_DD, DESC_STATUS_EOP)]
           /\ regs' = [regs EXCEPT ![REG_RX_DESC_HEAD] = advance(j, RX_RING_SIZE)]
           /\ origin' = [origin EXCEPT ![j] = sub[i]]
    /\ hwRxDone' = hwRxDone + 1
    /\ UNCHANGED << bar0_base_, tx_ring_, tx_buffers_, rx_head_, tx_head_, tx_tail_,
                    packets_received_, packets_sent_, initialized_, thread,
                    sendCalls, oversized, sendOk, recvCalls, recvOk, hwTxDone,
                    reclaimed, last, sub, env, peers >>

\* ------------------------------------------------------- specification
Next ==
    \/ \E mapRes \in {"nullptr", "MAP_FAILED", "mapped"}, resetOk \in BOOLEAN,
          failAt \in 0 .. 4 : Initialize(mapRes, resetOk, failAt)
    \/ \E n \in Lengths : send_packet(Payload(sendOk, n), n)
    \/ receive_packet
    \/ \E i \in 0 .. TX_RING_SIZE - 1 : HwTxComplete(i)
    \/ \E n \in WireLengths : HwRxDeliver(Payload(RxDelivered, n), n)
    \/ \E i \in 0 .. TX_RING_SIZE - 1, dec \in Decoders : HarnessLoopback(i, dec)

Spec == Init /\ [][Next]_vars

\* --------------------------------------- hot path, statement by statement
\* In this part the ring and buffer variables are memory as the device sees
\* it.  A store the thread issued sits in sb until it becomes visible; stores
\* become visible in any order, except that a store-release (stlr) becomes
\* visible only after every store issued before it, and that a barrier (dmb)
\* is passed only once every store issued before it is visible.
Store(kind, slot, data, n, rel) ==
    [kind |-> kind, slot |-> slot, data |-> data, n |-> n, rel |-> rel]

\* a store may become visible now: a plain store always, a release store
\* only at the front
MayDrain(k) == ~sb[k].rel \/ k = 1

RemoveAt(seq, k) == [j \in 1 .. Len(seq) - 1 |-> IF j < k THEN seq[j] ELSE seq[j + 1]]

DrainStore(k) ==
    /\ k \in 1 .. Len(sb)
    /\ MayDrain(k)
    /\ sb' = RemoveAt(sb, k)
    /\ LET w == sb[k]
       IN  /\ tx_buffers_' =
                  IF w.kind = "tx_buffer"
                  THEN Memcpy(tx_buffers_, TxSlotOffset(w.slot), w.data, w.n)
                  ELSE tx_buffers_
           /\ tx_ring_' =
                  IF w.kind = "tx_desc"
                  THEN [tx_ring_ EXCEPT
                           ![w.slot].buffer_addr = TxAddr(TxSlotOffset(w.slot)),
                           ![w.slot].cmd_type_len = CmdTypeLen(w.n)]
                  ELSE IF w.kind = "tx_status"
                  THEN [tx_ring_ EXCEPT ![w.slot].status = 0]
                  ELSE tx_ring_
           /\ rx_ring_' =
                  IF w.kind = "rx_status"
                  THEN [rx_ring_ EXCEPT ![w.slot].status = 0]
                  ELSE rx_ring_
    /\ UNCHANGED << bar0_base_, rx_buffers_, rx_head_, tx_head_, tx_tail_,
                    packets_received_, packets_sent_, initialized_, regs, pc, loc,
                    history, env, peers >>

\* send_packet entry: next_tail and the first ring-full test
send_begin(data, length) ==
    /\ pc = "idle" /\ initialized_
    /\ Events < MaxEvents /\ sendCalls + recvCalls < MaxConcCalls
    /\ sendCalls' = sendCalls + 1
    /\ oversized' = (oversized \/ length > MAX_PACKET_SIZE)
    /\ LET next_tail == advance(tx_tail_, TX_RING_SIZE)
       IN  /\ loc' = [op |-> "send", data |-> data, length |-> length,
                      next_tail |-> next_tail, steps |-> 1,
                      entry |-> SendEntry(next_tail)]
           /\ pc' = IF TxRingFull(next_tail, tx_head_) THEN "send_reclaim"
                    ELSE "send_fill"
    /\ UNCHANGED << driver, regs, sb, sendOk, recvCalls, recvOk, hwTxDone,
                    hwRxDone, reclaimed,
                    last, sub, origin, env, peers >>

\* a send_packet that runs the reclamation again until a slot is free
SendWhenStillFull_Spin == "send_reclaim"

\* where send_packet goes when the ring is still full after the reclamation:
\* it returns false
SendWhenStillFull == "idle"

\* reclaim_tx_descriptors: one evaluation of the loop condition and body;
\* on loop exit, the second ring-full test of send_packet
send_reclaim ==
    /\ pc = "send_reclaim"
    /\ IF tx_head_ # tx_tail_ /\ HasDD(tx_ring_[tx_head_].status)
       THEN /\ tx_head_' = advance(tx_head_, TX_RING_SIZE)
            /\ reclaimed' = reclaimed + 1
            /\ loc' = [loc EXCEPT !.steps = @ + 1]
            /\ UNCHANGED << pc, last >>
       ELSE /\ UNCHANGED << tx_head_, reclaimed >>
            /\ IF TxRingFull(loc.next_tail, tx_head_)
               THEN /\ pc' = SendWhenStillFull
                    /\ IF SendWhenStillFull = "idle"
                       THEN /\ loc' = NoLocals
                            /\ last' = SendRecord(FALSE, loc.length, loc.next_tail,
                                                  tx_head_, loc.entry)
                       ELSE /\ loc' = [loc EXCEPT !.steps = @ + 1]
                            /\ UNCHANGED last
               ELSE /\ pc' = "send_fill"
                    /\ loc' = [loc EXCEPT !.steps = @ + 1]
                    /\ UNCHANGED last
    /\ UNCHANGED << bar0_base_, rx_ring_, tx_ring_, rx_buffers_, tx_buffers_, rx_head_,
                    tx_tail_, packets_received_, packets_sent_, initialized_, regs,
                    sb, sendCalls, oversized, sendOk, recvCalls, recvOk, hwTxDone,
                    hwRxDone, sub, origin, env, peers >>

\* memcpy / neon_memcpy into the slot at tx_tail_, then desc->buffer_addr and
\* desc->cmd_type_len: plain stores
send_fill ==
    /\ pc = "send_fill"
    /\ \E outcome \in CopyOutcomes(tx_buffers_, TxSlotOffset(tx_tail_), loc.length) :
          IF outcome = "fault"
          THEN /\ sb' = Append(sb, Store("tx_buffer", tx_tail_, loc.data, loc.length,
                                         FALSE))
               /\ pc' = "faulted"
               /\ loc' = NoLocals
               /\ last' = FaultRecord(loc.length)
          ELSE /\ sb' = sb \o
                        << Store("tx_buffer", tx_tail_, loc.data, loc.length, FALSE),
                           Store("tx_desc", tx_tail_, << >>, loc.length, FALSE) >>
               /\ pc' = "send_release"
               /\ loc' = [loc EXCEPT !.steps = @ + 1]
               /\ UNCHANGED last
    /\ UNCHANGED << driver, regs, sendCalls, oversized, sendOk, recvCalls, recvOk,
                    hwTxDone, hwRxDone, reclaimed, sub, origin, env, peers >>

\* stlr of 0 to desc->status
send_release ==
    /\ pc = "send_release"
    /\ sb' = Append(sb, Store("tx_status", tx_tail_, << >>, 0, TRUE))
    /\ pc' = "send_barrier"
    /\ loc' = [loc EXCEPT !.steps = @ + 1]
    /\ UNCHANGED << driver, regs, history, env, peers >>

\* a register write that does not wait for the earlier stores
BarrierPassed_Skipped == TRUE

\* a dmb: passed once every earlier store is visible
BarrierPassed == sb = << >>

\* dmb ish
send_barrier ==
    /\ pc = "send_barrier"
    /\ BarrierPassed
    /\ pc' = "send_doorbell"
    /\ loc' = [loc EXCEPT !.steps = @ + 1]
    /\ UNCHANGED << driver, regs, sb, history, env, peers >>

\* tx_tail_ = next_tail; write_reg(REG_TX_DESC_TAIL, tx_tail_) (dmb st, str);
\* packets_sent_++; return true
send_doorbell ==
    /\ pc = "send_doorbell"
    /\ BarrierPassed
    /\ tx_tail_' = loc.next_tail
    /\ regs' = [regs EXCEPT ![REG_TX_DESC_TAIL] = loc.next_tail]
    /\ packets_sent_' = Increment(packets_sent_)
    /\ sendOk' = sendOk + 1
    /\ sub' = [sub EXCEPT ![tx_tail_] = Frame(loc.data, loc.length)]
    /\ last' = SendRecord(TRUE, loc.length, loc.next_tail, tx_head_, loc.entry)
    /\ pc' = "idle"
    /\ loc' = NoLocals
    /\ UNCHANGED << bar0_base_, rx_ring_, tx_ring_, rx_buffers_, tx_buffers_, rx_head_,
                    tx_head_, packets_received_, initialized_, sb, sendCalls, oversized,
                    recvCalls, recvOk, hwTxDone, hwRxDone, reclaimed, origin, env, peers >>

\* a receive_packet that polls the status word until the flag shows
RecvWhenNoPacket_Spin == "recv_load"

\* where receive_packet goes when the descriptor at rx_head_ has no DD flag:
\* it returns false
RecvWhenNoPacket == "idle"

\* receive_packet entry: ldapr of desc->status and the DD test
recv_load ==
    /\ pc \in {"idle", "recv_load"} /\ initialized_
    /\ pc = "idle" => (Events < MaxEvents /\ sendCalls + recvCalls < MaxConcCalls)
    /\ recvCalls' = IF pc = "idle" THEN recvCalls + 1 ELSE recvCalls
    /\ LET status == rx_ring_[rx_head_].status
           steps == IF pc = "idle" THEN 1 ELSE loc.steps + 1
       IN  IF ~HasDD(status)
           THEN /\ pc' = RecvWhenNoPacket
                /\ loc' = IF RecvWhenNoPacket = "idle" THEN NoLocals
                          ELSE [op |-> "recv", status |-> status, steps |-> steps]
                /\ last' = IF RecvWhenNoPacket = "idle"
                           THEN RecvRecord(FALSE, rx_head_, 0, << >>, NoFrame, status)
                           ELSE last
           ELSE /\ pc' = "recv_take"
                /\ loc' = [op |-> "recv", status |-> status, steps |-> steps]
                /\ UNCHANGED last
    /\ UNCHANGED << driver, regs, sb, sendCalls, oversized, sendOk, recvOk, hwTxDone,
                    hwRxDone, reclaimed,
                    sub, origin, env, peers >>

\* *packet_out, *len_out = desc->length, desc->status = 0 (a plain store),
\* rx_head_ advanced
recv_take ==
    /\ pc = "recv_take"
    /\ loc' = [loc EXCEPT !.steps = @ + 1] @@
              [slot |-> rx_head_, len |-> rx_ring_[rx_head_].length]
    /\ sb' = Append(sb, Store("rx_status", rx_head_, << >>, 0, FALSE))
    /\ rx_head_' = advance(rx_head_, RX_RING_SIZE)
    /\ pc' = "recv_doorbell"
    /\ UNCHANGED << bar0_base_, rx_ring_, tx_ring_, rx_buffers_, tx_buffers_, tx_head_,
                    tx_tail_, packets_received_, packets_sent_, initialized_, regs,
                    history, env, peers >>

\* write_reg(REG_RX_DESC_TAIL, (rx_head_ - 1) & (RX_RING_SIZE - 1)) (dmb st,
\* str); packets_received_++; return true
recv_doorbell ==
    /\ pc = "recv_doorbell"
    /\ BarrierPassed
    /\ regs' = [regs EXCEPT ![REG_RX_DESC_TAIL] = retreat(rx_head_, RX_RING_SIZE)]
    /\ packets_received_' = Increment(packets_received_)
    /\ recvOk' = recvOk + 1
    /\ origin' = [origin EXCEPT ![loc.slot] = NoFrame]
    /\ last' = RecvRecord(TRUE, loc.slot, loc.len,
                          ReadBytes(rx_buffers_, RxSlotOffset(loc.slot), loc.len),
                          origin[loc.slot], loc.status)
    /\ pc' = "idle"
    /\ loc' = NoLocals
    /\ UNCHANGED << bar0_base_, rx_ring_, tx_ring_, rx_buffers_, tx_buffers_, rx_head_,
                    tx_head_, tx_tail_, packets_sent_, initialized_, sb, sendCalls, oversized,
                    sendOk, recvCalls, hwTxDone, hwRxDone, reclaimed, sub, env, peers >>

NextConc ==
    \/ Initialize("mapped", TRUE, 0)
    \/ \E n \in Lengths : send_begin(Payload(sendOk, n), n)
    \/ send_reclaim
    \/ send_fill
    \/ send_release
    \/ send_barrier
    \/ send_doorbell
    \/ recv_load
    \/ recv_take
    \/ recv_doorbell
    \/ \E k \in 1 .. 3 : DrainStore(k)
    \/ \E i \in 0 .. TX_RING_SIZE - 1 : HwTxComplete(i)
    \/ \E n \in WireLengths : HwRxDeliver(Payload(RxDelivered, n), n)

SpecConc == Init /\ [][NextConc]_vars

\* the statements of a send_packet call in progress and the stores it has
\* issued: the processor keeps executing them whatever the device does
SendSteps ==
    \/ send_reclaim
    \/ send_fill
    \/ send_release
    \/ send_barrier
    \/ send_doorbell
    \/ \E k \in 1 .. 3 : DrainStore(k)

\* send_packet calls statement by statement, with the device completing what
\* is published; the processor keeps executing, the device need not
NextSend ==
    \/ Initialize("mapped", TRUE, 0)
    \/ \E n \in Lengths : send_begin(Payload(sendOk, n), n)
    \/ send_reclaim
    \/ send_fill
    \/ send_release
    \/ send_barrier
    \/ send_doorbell
    \/ \E k \in 1 .. 3 : DrainStore(k)
    \/ \E i \in 0 .. TX_RING_SIZE - 1 : HwTxComplete(i)

SpecSend == Init /\ [][NextSend]_vars /\ WF_vars(SendSteps)

\* ------------------------------------------- initialize, statement by statement
\* map_bar0
InitLog == [op |-> "initialize", ok |-> FALSE, done |-> FALSE, steps |-> << >>,
            mmio |-> 0, allocs |-> 0, geometry |-> 0, enables |-> 0, leftOn |-> FALSE]

\* The device as the driver finds it: an earlier owner may have left the data
\* paths enabled.
DeviceLeftOn(rx, tx) ==
    /\ pc = "constructed"
    /\ regs = [r \in Regs |-> 0]
    /\ rx \/ tx
    /\ regs' = [regs EXCEPT ![REG_RX_CTRL] = IF rx THEN CTRL_RX_ENABLE ELSE 0,
                            ![REG_TX_CTRL] = IF tx THEN CTRL_TX_ENABLE ELSE 0]
    /\ UNCHANGED << driver, thread, history, env, peers >>

init_map_bar0(mapRes) ==
    /\ pc = "constructed"
    /\ bar0_base_' = IF mapRes = "nullptr" THEN bar0_base_ ELSE mapRes
    /\ env' = [MapEffect(env, mapRes) EXCEPT !.inits = @ + 1]
    /\ last' = [InitLog EXCEPT !.steps = << "map_bar0" >>, !.done = (mapRes # "mapped"),
                               !.leftOn = (regs[REG_RX_CTRL] # 0 \/ regs[REG_TX_CTRL] # 0)]
    /\ pc' = IF mapRes = "mapped" THEN "reset_write" ELSE "failed"
    /\ UNCHANGED << rx_ring_, tx_ring_, rx_buffers_, tx_buffers_, rx_head_, tx_head_,
                    tx_tail_, packets_received_, packets_sent_, initialized_, regs,
                    loc, sb, sendCalls, oversized, sendOk, recvCalls, recvOk,
                    hwTxDone, hwRxDone, reclaimed, sub, origin, peers >>

\* reset_device: write_reg(REG_CTRL, CTRL_RESET)
reset_write ==
    /\ pc = "reset_write"
    /\ regs' = [regs EXCEPT ![REG_CTRL] = CTRL_RESET]
    /\ loc' = [op |-> "reset", i |-> 0, reads |-> 0, clear |-> 0, ok |-> FALSE]
    /\ last' = [last EXCEPT !.steps = Append(@, "reset_device"), !.mmio = @ + 1]
    /\ pc' = "reset_poll"
    /\ UNCHANGED << driver, sb, sendCalls, oversized, sendOk, recvCalls, recvOk,
                    hwTxDone, hwRxDone, reclaimed, sub, origin, env, peers >>

\* a reset wait without a retry budget
ResetBudgetLeft_Unbounded(i) == TRUE

\* the loop condition of reset_device: i < 1000
ResetBudgetLeft(i) == i < RESET_POLLS

\* reset_device: one evaluation of the loop condition and, when it holds, one
\* iteration: read REG_CTRL, return true if CTRL_RESET is clear, else usleep
\* and i++.  When the condition fails the function returns false and so does
\* initialize.
reset_poll ==
    /\ pc = "reset_poll"
    /\ IF ResetBudgetLeft(loc.i)
       THEN /\ last' = [last EXCEPT !.mmio = @ + 1]
            /\ IF BitAnd(regs[REG_CTRL], CTRL_RESET) = 0
               THEN /\ loc' = [loc EXCEPT !.reads = @ + 1, !.clear = @ + 1, !.ok = TRUE,
                                          !.op = "reset_done"]
                    /\ pc' = "allocate"
               ELSE /\ loc' = [loc EXCEPT !.reads = @ + 1, !.i = @ + 1]
                    /\ pc' = "reset_poll"
       ELSE /\ loc' = [loc EXCEPT !.op = "reset_done"]
            /\ last' = [last EXCEPT !.done = TRUE]
            /\ pc' = "failed"
    /\ UNCHANGED << driver, regs, sb, sendCalls, oversized, sendOk, recvCalls, recvOk,
                    hwTxDone, hwRxDone, reclaimed, sub, origin, env, peers >>

\* The device finishes its reset and clears CTRL_RESET (it may never do so).
HwResetDone ==
    /\ pc = "reset_poll"
    /\ BitAnd(regs[REG_CTRL], CTRL_RESET) # 0
    /\ regs' = DeviceReset(regs)
    /\ UNCHANGED << driver, thread, history, env, peers >>

\* initialize going on after a failed allocation
AllocFailed_Ignored(failAt) == FALSE
\* if (!allocate_rings()) return false
AllocFailed(failAt) == failAt # 0

\* initialize enabling the data paths before the rings are configured
StepAfterAllocate_Enable == "enable_rx"
\* the statement of initialize that follows allocate_rings
StepAfterAllocate == "configure_rx"

\* allocate_rings, with the failAt-th allocation failing (0: none)
init_allocate_rings(failAt) ==
    /\ pc = "allocate"
    /\ rx_ring_' = AllocRxRing(failAt)
    /\ tx_ring_' = AllocTxRing(failAt)
    /\ rx_buffers_' = AllocRxBuffers(failAt)
    /\ tx_buffers_' = AllocTxBuffers(failAt)
    /\ env' = AllocEffect(env, failAt)
    /\ last' = [last EXCEPT !.steps = Append(@, "allocate_rings"),
                            !.allocs = IF failAt = 0 THEN 4 ELSE failAt,
                            !.done = AllocFailed(failAt)]
    /\ pc' = IF AllocFailed(failAt) THEN "failed" ELSE StepAfterAllocate
    /\ UNCHANGED << bar0_base_, rx_head_, tx_head_, tx_tail_, packets_received_,
                    packets_sent_, initialized_, regs, loc, sb, sendCalls, oversized,
                    sendOk, recvCalls, recvOk, hwTxDone, hwRxDone, reclaimed,
                    sub, origin, peers >>

\* the five register writes that configure the RX ring
init_configure_rx ==
    /\ pc = "configure_rx"
    /\ regs' = ConfigureRxRing(regs)
    /\ last' = [last EXCEPT !.steps = Append(@, "configure_rx"),
                            !.mmio = @ + 5, !.geometry = @ + 5]
    /\ pc' = "configure_tx"
    /\ UNCHANGED << driver, loc, sb, sendCalls, oversized, sendOk, recvCalls, recvOk,
                    hwTxDone, hwRxDone, reclaimed, sub, origin, env, peers >>

\* the five register writes that configure the TX ring
init_configure_tx ==
    /\ pc = "configure_tx"
    /\ regs' = ConfigureTxRing(regs)
    /\ last' = [last EXCEPT !.steps = Append(@, "configure_tx"),
                            !.mmio = @ + 5, !.geometry = @ + 5]
    /\ pc' = "enable_rx"
    /\ UNCHANGED << driver, loc, sb, sendCalls, oversized, sendOk, recvCalls, recvOk,
                    hwTxDone, hwRxDone, reclaimed, sub, origin, env, peers >>

\* rx_ctrl = read_reg(REG_RX_CTRL) | CTRL_RX_ENABLE; write_reg(REG_RX_CTRL, rx_ctrl)
init_enable_rx ==
    /\ pc = "enable_rx"
    /\ regs' = EnableRx(regs)
    /\ last' = [last EXCEPT !.steps = Append(@, "enable_rx"),
                            !.mmio = @ + 2, !.enables = @ + 1]
    /\ pc' = "enable_tx"
    /\ UNCHANGED << driver, loc, sb, sendCalls, oversized, sendOk, recvCalls, recvOk,
                    hwTxDone, hwRxDone, reclaimed, sub, origin, env, peers >>

\* tx_ctrl = read_reg(REG_TX_CTRL) | CTRL_TX_ENABLE; write_reg(REG_TX_CTRL, tx_ctrl)
init_enable_tx ==
    /\ pc = "enable_tx"
    /\ regs' = EnableTx(regs)
    /\ last' = [last EXCEPT !.steps = Append(@, "enable_tx"),
                            !.mmio = @ + 2, !.enables = @ + 1]
    /\ pc' = "mark_ready"
    /\ UNCHANGED << driver, loc, sb, sendCalls, oversized, sendOk, recvCalls, recvOk,
                    hwTxDone, hwRxDone, reclaimed, sub, origin, env, peers >>

\* initialized_ = true; return true
init_mark_ready ==
    /\ pc = "mark_ready"
    /\ initialized_' = TRUE
    /\ last' = [last EXCEPT !.ok = TRUE, !.done = TRUE]
    /\ pc' = "idle"
    /\ UNCHANGED << bar0_base_, rx_ring_, tx_ring_, rx_buffers_, tx_buffers_, rx_head_,
                    tx_head_, tx_tail_, packets_received_, packets_sent_, regs, loc, sb,
                    sendCalls, oversized, sendOk, recvCalls, recvOk, hwTxDone, hwRxDone,
                    reclaimed, sub, origin, env, peers >>

NextInit ==
    \/ \E rx \in BOOLEAN, tx \in BOOLEAN : DeviceLeftOn(rx, tx)
    \/ \E mapRes \in {"nullptr", "MAP_FAILED", "mapped"} : init_map_bar0(mapRes)
    \/ reset_write
    \/ reset_poll
    \/ HwResetDone
    \/ \E failAt \in 0 .. 4 : init_allocate_rings(failAt)
    \/ init_configure_rx
    \/ init_configure_tx
    \/ init_enable_rx
    \/ init_enable_tx
    \/ init_mark_ready

SpecInit == Init /\ [][NextInit]_vars

\* ------------------------------------------------- the handle's whole life
\* initialize() called again on a handle that was initialized (or failed to):
\* the code takes no notice of what the members hold.  The rings it allocates
\* are new memory, so the frames the old rings carried are gone.
Reinitialize(mapRes, resetOk, failAt) ==
    /\ pc \in {"idle", "failed", "broken"}
    /\ env.inits < MaxInits
    /\ InitializeEffect(mapRes, resetOk, failAt)
    /\ IF mapRes = "mapped" /\ resetOk
       THEN /\ sub' = [i \in 0 .. TX_RING_SIZE - 1 |-> NoFrame]
            /\ origin' = [i \in 0 .. RX_RING_SIZE - 1 |-> NoFrame]
       ELSE UNCHANGED << sub, origin >>

\* cleanup(), line by line: what it finds to do
CleanupWritesRegs == initialized_
CleanupUnmaps_NonNull == bar0_base_ # "nullptr"
CleanupUnmaps == bar0_base_ \notin {"nullptr", "MAP_FAILED"}
\* the pointers that are not null (env.blocks tells what each refers to)
CleanupFrees == { b \in Blocks : env.blocks[b] # "null" }
\* the two register writes go through a window that is not mapped
CleanupStrayWrites == CleanupWritesRegs /\ ~(bar0_base_ = "mapped" /\ env.window = "live")
\* free() of blocks that were freed already
CleanupDoubleFrees == { b \in CleanupFrees : env.blocks[b] = "freed" }

\* How a cleanup call can end.  A register write through an unmapped window
\* and a second free() of a block are undefined: the call carries on, or the
\* process dies at that statement.
CleanupOutcomes ==
    {"done"} \cup (IF CleanupStrayWrites THEN {"fault"} ELSE {})
             \cup (IF CleanupDoubleFrees # {} THEN {"abort"} ELSE {})

\* the pointers the call passes to free(): all that are not null, or, when
\* the process dies in free(), those up to the first block freed before
CleanupFreed(outcome) ==
    IF outcome = "fault" THEN {}
    ELSE IF outcome = "done" THEN CleanupFrees
    ELSE { b \in CleanupFrees :
             \A d \in CleanupDoubleFrees : BlockIndex[b] <= BlockIndex[d] }

CleanupRecord(outcome) ==
    [op |-> "cleanup", ok |-> outcome = "done",
     writes |-> IF CleanupWritesRegs THEN 2 ELSE 0,
     unmaps |-> IF CleanupUnmaps /\ outcome # "fault" THEN 1 ELSE 0,
     frees |-> CleanupFreed(outcome),
     live |-> { b \in Blocks : env.blocks[b] = "live" },
     window |-> env.window,
     leaked |-> env.leaked]

\* cleanup(): the members keep their values (no pointer is reset, initialized_
\* stays as it is)
cleanup(outcome) ==
    /\ pc \in {"constructed", "idle", "failed", "broken", "torn_down"}
    /\ env.cleanups < MaxCleanups
    /\ outcome \in CleanupOutcomes
    /\ regs' = IF CleanupWritesRegs /\ ~CleanupStrayWrites
               THEN [regs EXCEPT ![REG_RX_CTRL] = 0, ![REG_TX_CTRL] = 0]
               ELSE regs
    /\ env' = [env EXCEPT
                 !.cleanups = @ + 1,
                 !.strayMmio = @ + (IF CleanupStrayWrites THEN 2 ELSE 0),
                 !.window = IF outcome # "fault" /\ CleanupUnmaps /\ @ = "live"
                            THEN "unmapped" ELSE @,
                 !.badUnmap = @ + (IF outcome # "fault" /\ CleanupUnmaps
                                      /\ env.window # "live" THEN 1 ELSE 0),
                 !.blocks = [b \in Blocks |->
                                IF b \in CleanupFreed(outcome)
                                THEN "freed" ELSE env.blocks[b]],
                 !.doubleFree = @ + Cardinality(CleanupFreed(outcome)
                                                  \cap CleanupDoubleFrees)]
    /\ last' = CleanupRecord(outcome)
    /\ pc' = IF outcome = "done" THEN "torn_down" ELSE "faulted"
    /\ UNCHANGED << driver, loc, sb, sendCalls, oversized, sendOk, recvCalls, recvOk,
                    hwTxDone, hwRxDone, reclaimed, sub, origin, peers >>

\* A hot path call on a handle whose bar0_base_ or ring pointer is invalid
\* dereferences it: the process dies.
call_on_broken_handle ==
    /\ pc = "broken"
    /\ pc' = "faulted"
    /\ UNCHANGED << driver, regs, loc, sb, history, env, peers >>

LifeBudget == Events < MaxLifeEvents
life_send_packet(data, length) == LifeBudget /\ send_packet(data, length)
life_receive_packet == LifeBudget /\ receive_packet
life_HwTxComplete(i) == LifeBudget /\ HwTxComplete(i)
life_HwRxDeliver(data, n) == LifeBudget /\ HwRxDeliver(data, n)

NextLife ==
    \/ \E mapRes \in {"nullptr", "MAP_FAILED", "mapped"}, resetOk \in BOOLEAN,
          failAt \in 0 .. 4 : Initialize(mapRes, resetOk, failAt)
    \/ \E mapRes \in {"nullptr", "MAP_FAILED", "mapped"}, resetOk \in BOOLEAN,
          failAt \in 0 .. 4 : Reinitialize(mapRes, resetOk, failAt)
    \/ \E n \in Lengths : life_send_packet(Payload(sendOk, n), n)
    \/ life_receive_packet
    \/ \E i \in 0 .. TX_RING_SIZE - 1 : life_HwTxComplete(i)
    \/ \E n \in WireLengths : life_HwRxDeliver(Payload(RxDelivered, n), n)
    \/ call_on_broken_handle
    \/ \E outcome \in {"done", "fault", "abort"} : cleanup(outcome)

SpecLife == Init /\ [][NextLife]_vars

\* ------------------------------------------------ teardown, line by line
\* The destructor's cleanup() on a handle that initialize was called on at most
\* once, one statement per step; the device keeps working while it runs.
\* a teardown that releases first and disables last
CleanupOrder_ReleaseFirst(step) ==
    CASE step = "begin" -> "cleanup_free"
      [] step = "cleanup_free" -> "cleanup_unmap"
      [] step = "cleanup_unmap" -> "cleanup_rx_off"
      [] step = "cleanup_rx_off" -> "cleanup_tx_off"
      [] step = "cleanup_tx_off" -> "torn_down"
\* the statement that follows each statement of cleanup()
CleanupOrder(step) ==
    CASE step = "begin" -> "cleanup_rx_off"
      [] step = "cleanup_rx_off" -> "cleanup_tx_off"
      [] step = "cleanup_tx_off" -> "cleanup_unmap"
      [] step = "cleanup_unmap" -> "cleanup_free"
      [] step = "cleanup_free" -> "torn_down"

\* ~ARM64NICDriver
cleanup_begin ==
    /\ pc \in {"constructed", "idle", "failed"}
    /\ env.cleanups = 0
    /\ pc' = CleanupOrder("begin")
    /\ loc' = [op |-> "cleanup", i |-> 1]
    /\ env' = [env EXCEPT !.cleanups = @ + 1]
    /\ last' = [NoCall EXCEPT !.op = "cleanup"]
    /\ UNCHANGED << driver, regs, sb, sendCalls, oversized, sendOk, recvCalls, recvOk,
                    hwTxDone, hwRxDone, reclaimed, sub, origin, peers >>

\* if (initialized_) write_reg(reg, 0), for one of the two control registers
CleanupWrite(reg) ==
    /\ IF CleanupWritesRegs
       THEN IF CleanupStrayWrites
            THEN /\ env' = [env EXCEPT !.strayMmio = @ + 1]
                 /\ UNCHANGED regs
            ELSE /\ regs' = [regs EXCEPT ![reg] = 0]
                 /\ UNCHANGED env
       ELSE UNCHANGED << regs, env >>
    /\ pc' = CleanupOrder(pc)
    /\ UNCHANGED << driver, loc, sb, history, peers >>

cleanup_rx_off == pc = "cleanup_rx_off" /\ CleanupWrite(REG_RX_CTRL)
cleanup_tx_off == pc = "cleanup_tx_off" /\ CleanupWrite(REG_TX_CTRL)

\* if (bar0_base_ && bar0_base_ != MAP_FAILED) munmap(bar0_base_, bar0_size_)
cleanup_unmap ==
    /\ pc = "cleanup_unmap"
    /\ env' = IF ~CleanupUnmaps THEN env
              ELSE IF env.window = "live" THEN [env EXCEPT !.window = "unmapped"]
              ELSE [env EXCEPT !.badUnmap = @ + 1]
    /\ pc' = CleanupOrder(pc)
    /\ UNCHANGED << driver, regs, loc, sb, history, peers >>

\* if (p) free(p), for rx_ring_, tx_ring_, rx_buffers_, tx_buffers_ in turn
cleanup_free ==
    /\ pc = "cleanup_free"
    /\ LET b == CHOOSE x \in Blocks : BlockIndex[x] = loc.i
       IN  env' = IF b \notin CleanupFrees THEN env
                  ELSE [env EXCEPT !.blocks[b] = "freed",
                                   !.doubleFree = @ + (IF b \in CleanupDoubleFrees
                                                       THEN 1 ELSE 0)]
    /\ IF loc.i < Cardinality(Blocks)
       THEN /\ loc' = [loc EXCEPT !.i = @ + 1]
            /\ UNCHANGED << pc, last >>
       ELSE /\ loc' = NoLocals
            /\ pc' = CleanupOrder(pc)
            /\ last' = [last EXCEPT !.ok = TRUE]
    /\ UNCHANGED << driver, regs, sb, sendCalls, oversized, sendOk, recvCalls, recvOk,
                    hwTxDone, hwRxDone, reclaimed, sub, origin, peers >>

DownBudget == Events < MaxDownEvents
down_send_packet(data, length) == DownBudget /\ send_packet(data, length)
down_receive_packet == DownBudget /\ receive_packet
down_HwTxComplete(i) == DownBudget /\ HwTxComplete(i)
down_HwRxDeliver(data, n) == DownBudget /\ HwRxDeliver(data, n)

NextDown ==
    \/ \E rx \in BOOLEAN, tx \in BOOLEAN : DeviceLeftOn(rx, tx)
    \/ \E mapRes \in {"nullptr", "MAP_FAILED", "mapped"}, resetOk \in BOOLEAN,
          failAt \in 0 .. 4 : Initialize(mapRes, resetOk, failAt)
    \/ \E n \in WireLengths : down_send_packet(Payload(sendOk, n), n)
    \/ down_receive_packet
    \/ \E i \in 0 .. TX_RING_SIZE - 1 : down_HwTxComplete(i)
    \/ \E n \in WireLengths : down_HwRxDeliver(Payload(RxDelivered, n), n)
    \/ cleanup_begin
    \/ cleanup_rx_off
    \/ cleanup_tx_off
    \/ cleanup_unmap
    \/ cleanup_free

SpecDown == Init /\ [][NextDown]_vars

\* ------------------------------------------ calls on a handle not ready
\* send_packet, receive_packet and is_link_up called while initialized_ is
\* false: on a handle never initialized, or after an initialize that failed.
\* None of the three looks at initialized_.  A load or store through a null
\* pointer, or through a bar0_base_ that refers to no mapping, is undefined:
\* the process dies there ("fault"), or the call carries on with whatever the
\* load gave it ("stray").
\* The record of such a call: what it returned (ok), the memory it accessed
\* (touched), whether an access was undefined (ub).
UnreadyRecord(op, ok, touched, ub) ==
    [op |-> op, ok |-> ok, touched |-> touched, ub |-> ub]

WindowLive == bar0_base_ = "mapped" /\ env.window = "live"
\* write_reg(reg, value) on the register file r: through a live window it
\* reaches the device
WriteRegIfLive(r, reg, value) == IF WindowLive THEN [r EXCEPT ![reg] = value] ELSE r

Unready == pc \in {"constructed", "failed"} /\ ~initialized_
UnreadyBudget == sendCalls + recvCalls < MaxUnreadyCalls

\* the outcomes of receive_packet: with a ring it reads the status word at
\* rx_head_; with rx_ring_ null that load is undefined
UnreadyRecvOutcomes ==
    IF rx_ring_ # << >> THEN {"returns"} ELSE {"fault", "stray_false", "stray_true"}

unready_receive_packet(outcome) ==
    /\ Unready /\ UnreadyBudget
    /\ outcome \in UnreadyRecvOutcomes
    /\ recvCalls' = recvCalls + 1
    /\ LET hasDD == IF rx_ring_ # << >> THEN HasDD(rx_ring_[rx_head_].status)
                    ELSE outcome = "stray_true"
           ub == rx_ring_ = << >> \/ (hasDD /\ ~WindowLive)
       IN  IF outcome = "fault"
           THEN /\ pc' = "faulted"
                /\ last' = UnreadyRecord("recv", FALSE, {"ring"}, TRUE)
                /\ UNCHANGED << rx_ring_, rx_head_, regs, packets_received_ >>
           ELSE IF ~hasDD
           THEN /\ last' = UnreadyRecord("recv", FALSE, {"ring"}, ub)
                /\ UNCHANGED << pc, rx_ring_, rx_head_, regs, packets_received_ >>
           ELSE /\ rx_ring_' = IF rx_ring_ # << >>
                               THEN [rx_ring_ EXCEPT ![rx_head_].status = 0]
                               ELSE rx_ring_
                /\ rx_head_' = advance(rx_head_, RX_RING_SIZE)
                /\ regs' = WriteRegIfLive(regs, REG_RX_DESC_TAIL,
                               retreat(advance(rx_head_, RX_RING_SIZE), RX_RING_SIZE))
                /\ packets_received_' = Increment(packets_received_)
                /\ last' = UnreadyRecord("recv", TRUE, {"ring", "regs"}, ub)
                /\ UNCHANGED pc
    /\ UNCHANGED << bar0_base_, tx_ring_, rx_buffers_, tx_buffers_, tx_head_, tx_tail_,
                    packets_sent_, initialized_, loc, sb, sendCalls, oversized, sendOk,
                    recvOk, hwTxDone, hwRxDone, reclaimed, sub, origin, env, peers >>

\* the outcomes of send_packet: the copy goes to tx_buffers_ + offset, and
\* tx_buffers_ is null on every handle whose initialize did not succeed
UnreadySendOutcomes ==
    IF tx_buffers_ # << >> THEN {"returns"} ELSE {"fault", "stray"}

\* the call finds the ring not full: the cursors are those of the constructor
\* plus the calls made so far, fewer than the ring has slots
unready_send_packet(data, length, outcome) ==
    /\ Unready /\ UnreadyBudget
    /\ outcome \in UnreadySendOutcomes
    /\ ~TxRingFull(advance(tx_tail_, TX_RING_SIZE), tx_head_)
    /\ sendCalls' = sendCalls + 1
    /\ IF outcome = "fault"
       THEN /\ pc' = "faulted"
            /\ last' = UnreadyRecord("send", FALSE, {"buffer"}, TRUE)
            /\ UNCHANGED << tx_buffers_, tx_ring_, tx_tail_, regs, packets_sent_ >>
       ELSE /\ tx_buffers_' = IF tx_buffers_ # << >>
                              THEN Memcpy(tx_buffers_, TxSlotOffset(tx_tail_), data, length)
                              ELSE tx_buffers_
            /\ tx_ring_' = IF tx_ring_ # << >>
                           THEN [tx_ring_ EXCEPT ![tx_tail_] =
                                    [FilledTxDescriptor(tx_tail_, length) EXCEPT
                                        !.buffer_addr =
                                            IF tx_buffers_ # << >> THEN @
                                            ELSE [NullAddr EXCEPT
                                                    !.off = TxSlotOffset(tx_tail_)]]]
                           ELSE tx_ring_
            /\ tx_tail_' = advance(tx_tail_, TX_RING_SIZE)
            /\ regs' = WriteRegIfLive(regs, REG_TX_DESC_TAIL,
                                      advance(tx_tail_, TX_RING_SIZE))
            /\ packets_sent_' = Increment(packets_sent_)
            /\ last' = UnreadyRecord("send", TRUE, {"buffer", "ring", "regs"},
                                     tx_buffers_ = << >> \/ tx_ring_ = << >>
                                        \/ ~WindowLive)
            /\ UNCHANGED pc
    /\ UNCHANGED << bar0_base_, rx_ring_, rx_buffers_, rx_head_, tx_head_,
                    packets_received_, initialized_, loc, sb, oversized, sendOk,
                    recvCalls, recvOk, hwTxDone, hwRxDone, reclaimed, sub, origin,
                    env, peers >>

\* the outcomes of is_link_up: read_reg(REG_STATUS) through bar0_base_
UnreadyLinkOutcomes ==
    IF WindowLive THEN {"returns"} ELSE {"fault", "stray_false", "stray_true"}

\* the device reports its link in bit 1 of REG_STATUS
unready_is_link_up(outcome) ==
    /\ Unready
    /\ outcome \in UnreadyLinkOutcomes
    /\ pc' = IF outcome = "fault" THEN "faulted" ELSE pc
    /\ last' = UnreadyRecord("is_link_up",
                   IF WindowLive THEN BitAnd(regs[REG_STATUS], 2) # 0
                   ELSE outcome = "stray_true",
                   {"regs"}, ~WindowLive)
    /\ UNCHANGED << driver, regs, loc, sb, sendCalls, oversized, sendOk, recvCalls,
                    recvOk, hwTxDone, hwRxDone, reclaimed, sub, origin, env, peers >>

\* the link comes up
HwLinkUp ==
    /\ BitAnd(regs[REG_STATUS], 2) = 0
    /\ regs' = [regs EXCEPT ![REG_STATUS] = BitOr(@, 2)]
    /\ UNCHANGED << driver, thread, history, env, peers >>

NextUnready ==
    \/ \E mapRes \in {"nullptr", "MAP_FAILED", "mapped"}, resetOk \in BOOLEAN,
          failAt \in 0 .. 4 : Initialize(mapRes, resetOk, failAt)
    \/ HwLinkUp
    \/ \E outcome \in {"returns", "fault", "stray_false", "stray_true"} :
          unready_receive_packet(outcome)
    \/ \E n \in WireLengths, outcome \in {"returns", "fault", "stray"} :
          unready_send_packet(Payload(sendCalls, n), n, outcome)
    \/ \E outcome \in {"returns", "fault", "stray_false", "stray_true"} :
          unready_is_link_up(outcome)

SpecUnready == Init /\ [][NextUnready]_vars

\* ------------------------------------------------- frames of every length
\* the lengths of the frames that fit a buffer slot, the empty frame included
FrameLengths == 0 .. MAX_PACKET_SIZE

LenBudget == Events < MaxLenEvents
len_send_packet(data, length) == LenBudget /\ send_packet(data, length)
len_HwTxComplete(i) == LenBudget /\ HwTxComplete(i)

NextLen ==
    \/ \E mapRes \in {"nullptr", "MAP_FAILED", "mapped"}, resetOk \in BOOLEAN,
          failAt \in 0 .. 4 : Initialize(mapRes, resetOk, failAt)
    \/ \E n \in FrameLengths : len_send_packet(Payload(sendOk, n), n)
    \/ \E i \in 0 .. TX_RING_SIZE - 1 : len_HwTxComplete(i)

SpecLen == Init /\ [][NextLen]_vars

\* ------------------------------------------------------- a polling caller
\* A caller that has MaxPollFrames frames of one byte to send and calls
\* send_packet again whenever it returns false, and that keeps calling
\* receive_packet; a wire that delivers MaxPollFrames frames; a device that
\* completes the published TX descriptors in ring order.  Calls that return
\* false are not counted anywhere, so a behaviour may hold any number of them.
\* what the caller knows of its last call; retry tells that the call before
\* it was a send_packet that returned false
PollRecord(op, ok, slot) ==
    [op |-> op, ok |-> ok, slot |-> slot,
     retry |-> op = "send" /\ last.op = "send" /\ ~last.ok]

poll_send_packet ==
    /\ pc = "idle" /\ initialized_
    /\ packets_sent_ < MaxPollFrames
    /\ LET next_tail == advance(tx_tail_, TX_RING_SIZE)
           head == HeadAfterFullCheck(next_tail)
       IN  /\ tx_head_' = head
           /\ IF TxRingFull(next_tail, head)
              THEN /\ last' = PollRecord("send", FALSE, tx_tail_)
                   /\ UNCHANGED << tx_buffers_, tx_ring_, tx_tail_, regs, packets_sent_ >>
              ELSE /\ tx_buffers_' = Memcpy(tx_buffers_, TxSlotOffset(tx_tail_),
                                            Payload(packets_sent_, 1), 1)
                   /\ tx_ring_' = [tx_ring_ EXCEPT
                                      ![tx_tail_] = FilledTxDescriptor(tx_tail_, 1)]
                   /\ tx_tail_' = next_tail
                   /\ regs' = [regs EXCEPT ![REG_TX_DESC_TAIL] = next_tail]
                   /\ packets_sent_' = Increment(packets_sent_)
                   /\ last' = PollRecord("send", TRUE, tx_tail_)
    /\ UNCHANGED << bar0_base_, rx_ring_, rx_buffers_, rx_head_, packets_received_,
                    initialized_, thread, sendCalls, sendOk, recvCalls, recvOk,
                    hwTxDone, reclaimed, oversized, hwRxDone, sub, origin, env, peers >>

poll_receive_packet ==
    /\ pc = "idle" /\ initialized_
    /\ IF ~HasDD(rx_ring_[rx_head_].status)
       THEN /\ last' = PollRecord("recv", FALSE, rx_head_)
            /\ UNCHANGED << rx_ring_, rx_head_, regs, packets_received_ >>
       ELSE /\ rx_ring_' = [rx_ring_ EXCEPT ![rx_head_].status = 0]
            /\ rx_head_' = advance(rx_head_, RX_RING_SIZE)
            /\ regs' = [regs EXCEPT ![REG_RX_DESC_TAIL] =
                           retreat(advance(rx_head_, RX_RING_SIZE), RX_RING_SIZE)]
            /\ packets_received_' = Increment(packets_received_)
            /\ last' = PollRecord("recv", TRUE, rx_head_)
    /\ UNCHANGED << bar0_base_, tx_ring_, tx_buffers_, rx_buffers_, tx_head_, tx_tail_,
                    packets_sent_, initialized_, thread, sendCalls, sendOk, recvCalls,
                    recvOk, hwTxDone, reclaimed, oversized, hwRxDone, sub, origin,
                    env, peers >>

\* the device completes the oldest published TX descriptor
poll_HwTxComplete ==
    /\ TxEnabled
    /\ regs[REG_TX_DESC_HEAD] \in HwTxOwned
    /\ tx_ring_' = [tx_ring_ EXCEPT
                       ![regs[REG_TX_DESC_HEAD]].status = BitOr(@, DESC_STATUS_DD)]
    /\ regs' = [regs EXCEPT ![REG_TX_DESC_HEAD] =
                   HwTxHead(@, regs[REG_TX_DESC_TAIL], tx_ring_')]
    /\ UNCHANGED << bar0_base_, rx_ring_, rx_buffers_, tx_buffers_, rx_head_, tx_head_,
                    tx_tail_, packets_received_, packets_sent_, initialized_, thread,
                    history, env, peers >>

\* the device stores a frame from the wire into the next released RX
\* descriptor
poll_HwRxDeliver ==
    /\ RxEnabled
    /\ hwRxDone < MaxPollFrames
    /\ regs[REG_RX_DESC_HEAD] \in HwRxOwned
    /\ LET j == regs[REG_RX_DESC_HEAD]
       IN  /\ rx_buffers_' = DmaWrite(rx_buffers_, rx_ring_[j].buffer_addr,
                                      Payload(hwRxDone, 1), 1)
           /\ rx_ring_' = [rx_ring_ EXCEPT
                              ![j].length = 1,
                              ![j].status = BitOr(DESC_STATUS_DD, DESC_STATUS_EOP)]
           /\ regs' = [regs EXCEPT ![REG_RX_DESC_HEAD] = advance(j, RX_RING_SIZE)]
    /\ hwRxDone' = hwRxDone + 1
    /\ UNCHANGED << bar0_base_, tx_ring_, tx_buffers_, rx_head_, tx_head_, tx_tail_,
                    packets_received_, packets_sent_, initialized_, thread,
                    sendCalls, oversized, sendOk, recvCalls, recvOk, hwTxDone,
                    reclaimed, last, sub, origin, env, peers >>

NextPoll ==
    \/ \E mapRes \in {"nullptr", "MAP_FAILED", "mapped"}, resetOk \in BOOLEAN,
          failAt \in 0 .. 4 : Initialize(mapRes, resetOk, failAt)
    \/ poll_send_packet
    \/ poll_receive_packet
    \/ poll_HwTxComplete
    \/ poll_HwRxDeliver

\* the caller keeps calling, the device completes what is published to it;
\* the wire is free to stay silent
PollFairness ==
    /\ WF_vars(poll_send_packet)
    /\ WF_vars(poll_receive_packet)
    /\ WF_vars(poll_HwTxComplete)

SpecPoll == Init /\ [][NextPoll]_vars /\ PollFairness

\* ------------------------------------------------ two handles, one process
\* Each operation as a function of the handle d it is called on (its members
\* and its device's registers); the return of each call is appended to
\* d.results.
Returned(d, op, ok, n, data) ==
    Append(d.results, [op |-> op, ok |-> ok, len |-> n, data |-> data])

\* initialize(), every step succeeding
InstInitialize(d) ==
    [d EXCEPT !.rx_ring_ = AllocRxRing(0), !.tx_ring_ = FreshTxRing,
              !.rx_buffers_ = FreshRxBuffers, !.tx_buffers_ = FreshTxBuffers,
              !.regs = EnablePaths(ConfigureRings(DeviceReset(d.regs))),
              !.initialized_ = TRUE,
              !.results = Returned(d, "initialize", TRUE, 0, << >>)]

\* send_packet(data, length); the bytes of the copy that fall inside
\* tx_buffers_
InstSendHead(d) ==
    LET next_tail == advance(d.tx_tail_, TX_RING_SIZE)
    IN  IF TxRingFull(next_tail, d.tx_head_)
        THEN reclaim_tx_descriptors(d.tx_head_, d.tx_tail_, d.tx_ring_)
        ELSE d.tx_head_
InstSendFull(d) == TxRingFull(advance(d.tx_tail_, TX_RING_SIZE), InstSendHead(d))
InstSend(d, data, length) ==
    IF InstSendFull(d)
    THEN [d EXCEPT !.tx_head_ = InstSendHead(d),
                   !.results = Returned(d, "send", FALSE, length, << >>)]
    ELSE [d EXCEPT !.tx_head_ = InstSendHead(d),
                   !.tx_buffers_ = Memcpy(@, TxSlotOffset(d.tx_tail_), data, length),
                   !.tx_ring_[d.tx_tail_] = FilledTxDescriptor(d.tx_tail_, length),
                   !.tx_tail_ = advance(@, TX_RING_SIZE),
                   !.regs[REG_TX_DESC_TAIL] = advance(d.tx_tail_, TX_RING_SIZE),
                   !.packets_sent_ = Increment(@),
                   !.results = Returned(d, "send", TRUE, length, << >>)]

\* receive_packet(&packet, &len)
InstReceive(d) ==
    IF ~HasDD(d.rx_ring_[d.rx_head_].status)
    THEN [d EXCEPT !.results = Returned(d, "recv", FALSE, 0, << >>)]
    ELSE [d EXCEPT !.rx_ring_[d.rx_head_].status = 0,
                   !.rx_head_ = advance(@, RX_RING_SIZE),
                   !.regs[REG_RX_DESC_TAIL] = d.rx_head_,
                   !.packets_received_ = Increment(@),
                   !.results = Returned(d, "recv", TRUE, d.rx_ring_[d.rx_head_].length,
                                        ReadBytes(d.rx_buffers_, RxSlotOffset(d.rx_head_),
                                                  d.rx_ring_[d.rx_head_].length))]

\* the handle's device: completion of TX descriptor i, delivery of a frame
InstTxOwned(d) ==
    { i \in RingRange(d.regs[REG_TX_DESC_HEAD], d.regs[REG_TX_DESC_TAIL], TX_RING_SIZE) :
        ~HasDD(d.tx_ring_[i].status) }
InstTxComplete(d, i) ==
    LET ring == [d.tx_ring_ EXCEPT ![i].status = BitOr(@, DESC_STATUS_DD)]
    IN  [d EXCEPT !.tx_ring_ = ring,
                  !.regs[REG_TX_DESC_HEAD] = HwTxHead(@, d.regs[REG_TX_DESC_TAIL], ring)]
InstRxOwned(d) ==
    RingRange(d.regs[REG_RX_DESC_HEAD], d.regs[REG_RX_DESC_TAIL], RX_RING_SIZE)
InstRxDeliver(d, data, n) ==
    LET j == d.regs[REG_RX_DESC_HEAD]
    IN  [d EXCEPT !.rx_buffers_ = DmaWrite(@, d.rx_ring_[j].buffer_addr, data, n),
                  !.rx_ring_[j].length = n,
                  !.rx_ring_[j].status = BitOr(DESC_STATUS_DD, DESC_STATUS_EOP),
                  !.regs[REG_RX_DESC_HEAD] = advance(j, RX_RING_SIZE)]

\* The bytes of a copy that run past the end of the handle's tx_buffers_.
\* Where they go is undefined: into memory no handle uses ("stray"), into the
\* heap block that follows, which may be a buffer pool of the other handle
\* ("neighbour"), or the access faults and the process dies ("fault").
TwoCopyOutcomes(d, length) ==
    IF ~InstSendFull(d) /\ Overruns(d.tx_buffers_, TxSlotOffset(d.tx_tail_), length)
    THEN {"stray", "neighbour", "fault"}
    ELSE {"inside"}
Overflow(d, data, length) ==
    LET past == TxSlotOffset(d.tx_tail_) + length - TX_RING_SIZE * MAX_PACKET_SIZE
    IN  [k \in 1 .. past |-> data[length - past + k]]
\* the block that follows holds the other handle's block, one of its pools
HitNeighbour(v, block, bytes) ==
    IF ~v.initialized_ THEN v
    ELSE IF block = "rx_buffers_"
         THEN [v EXCEPT !.rx_buffers_ = Memcpy(@, 0, bytes, Len(bytes))]
         ELSE [v EXCEPT !.tx_buffers_ = Memcpy(@, 0, bytes, Len(bytes))]

TwoBudget == proc.state = "running" /\ proc.events < MaxTwoEvents
Tick == [proc EXCEPT !.events = @ + 1]

two_initialize(self) ==
    /\ TwoBudget
    /\ ~inst[self].initialized_
    /\ inst' = [inst EXCEPT ![self] = InstInitialize(@)]
    /\ alone' = [alone EXCEPT ![self] = InstInitialize(@)]
    /\ proc' = Tick
    /\ UNCHANGED << driver, regs, thread, history, env >>

two_send_packet(self, data, length) ==
    /\ TwoBudget
    /\ inst[self].initialized_
    /\ \E outcome \in TwoCopyOutcomes(inst[self], length),
          block \in {"rx_buffers_", "tx_buffers_"} :
          IF outcome = "fault"
          THEN /\ proc' = [Tick EXCEPT !.state = "faulted"]
               /\ UNCHANGED << inst, alone >>
          ELSE /\ inst' = [v \in Instances |->
                             IF v = self THEN InstSend(inst[self], data, length)
                             ELSE IF outcome = "neighbour"
                                  THEN HitNeighbour(inst[v], block,
                                                    Overflow(inst[self], data, length))
                                  ELSE inst[v]]
               /\ alone' = [alone EXCEPT ![self] = InstSend(@, data, length)]
               /\ proc' = Tick
    /\ UNCHANGED << driver, regs, thread, history, env >>

two_receive_packet(self) ==
    /\ TwoBudget
    /\ inst[self].initialized_
    /\ inst' = [inst EXCEPT ![self] = InstReceive(@)]
    /\ alone' = [alone EXCEPT ![self] = InstReceive(@)]
    /\ proc' = Tick
    /\ UNCHANGED << driver, regs, thread, history, env >>

two_HwTxComplete(self, i) ==
    /\ TwoBudget
    /\ inst[self].initialized_
    /\ i \in InstTxOwned(inst[self])
    /\ inst' = [inst EXCEPT ![self] = InstTxComplete(@, i)]
    /\ alone' = [alone EXCEPT ![self] = InstTxComplete(@, i)]
    /\ proc' = Tick
    /\ UNCHANGED << driver, regs, thread, history, env >>

two_HwRxDeliver(self, data, n) ==
    /\ TwoBudget
    /\ inst[self].initialized_
    /\ inst[self].regs[REG_RX_DESC_HEAD] \in InstRxOwned(inst[self])
    /\ inst' = [inst EXCEPT ![self] = InstRxDeliver(@, data, n)]
    /\ alone' = [alone EXCEPT ![self] = InstRxDeliver(@, data, n)]
    /\ proc' = Tick
    /\ UNCHANGED << driver, regs, thread, history, env >>

NextTwo ==
    \/ \E self \in Instances : two_initialize(self)
    \/ \E self \in Instances, n \in Lengths :
          two_send_packet(self, Payload(inst[self].packets_sent_ + self, n), n)
    \/ \E self \in Instances : two_receive_packet(self)
    \/ \E self \in Instances, i \in 0 .. TX_RING_SIZE - 1 : two_HwTxComplete(self, i)
    \/ \E self \in Instances, n \in WireLengths :
          two_HwRxDeliver(self, Payload(inst[self].packets_received_ + self, n), n)

SpecTwo == Init /\ [][NextTwo]_vars

\* ------------------------------------------------------------------ claims
Min(a, b) == IF a < b THEN a ELSE b

\* frames accepted by send_packet and not yet reclaimed
InFlight == sendOk - reclaimed

\* C1: from a freshly initialized device, as long as no hardware completion
\* has happened and fewer calls than the TX ring size were made, every
\* send_packet call so far returned success and packets_sent_ counts them.
\* The frames are frames that fit a buffer slot; what longer ones do to the
\* buffer pool is the subject of C23.
C1_SendsBelowRingSizeSucceed ==
    (~oversized /\ hwTxDone = 0 /\ sendCalls < TX_RING_SIZE)
        => (sendOk = sendCalls /\ packets_sent_ = sendCalls)
C1_Witness ==
    /\ ~oversized /\ hwTxDone = 0
    /\ sendCalls = TX_RING_SIZE - 1
    /\ packets_sent_ = TX_RING_SIZE - 1
    /\ last.op = "send" /\ last.ok

\* C2 as stated: a send_packet (of a frame that fits a slot) that finds the
\* ring full fails when the oldest in-flight descriptor has no completion
\* flag, and when it has one succeeds and writes the new frame into that
\* completed descriptor's slot.
C2_ReusesCompletedSlot ==
    (~oversized /\ last.op = "send" /\ last.full)
        => /\ ~last.dd => ~last.ok
           /\ last.dd => (last.ok /\ last.slot = last.oldest)
\* C2 amended: ... and when it has one succeeds, writing the new frame into
\* the slot at the producer index, which is the one unused slot just before
\* the completed descriptor in ring order, not the completed slot itself.
C2_UsesGapSlotBeforeCompleted ==
    (~oversized /\ last.op = "send" /\ last.full)
        => /\ ~last.dd => ~last.ok
           /\ last.dd => /\ last.ok
                         /\ last.slot = retreat(last.oldest, TX_RING_SIZE)
                         /\ last.slot # last.oldest
C2_Witness ==
    /\ ~oversized /\ last.op = "send" /\ last.full /\ last.dd /\ last.ok
    /\ sendCalls > sendOk
    /\ sub[last.slot] # NoFrame

\* C3 as stated: without reclamation exactly TX_RING_SIZE consecutive calls
\* (with frames that fit a slot) succeed, the call after them being the first
\* to fail.
C3_CapacityIsRingSize ==
    (~oversized /\ hwTxDone = 0) => sendOk = Min(sendCalls, TX_RING_SIZE)
\* C3 amended: without reclamation exactly TX_RING_SIZE - 1 consecutive calls
\* succeed and call number TX_RING_SIZE is the first to fail.
C3_CapacityIsRingSizeMinusOne ==
    (~oversized /\ hwTxDone = 0) => sendOk = Min(sendCalls, TX_RING_SIZE - 1)
C3_Witness ==
    /\ ~oversized /\ hwTxDone = 0
    /\ sendCalls = TX_RING_SIZE
    /\ sendOk = TX_RING_SIZE - 1
    /\ last.op = "send" /\ ~last.ok

\* C4: send_packet fails exactly when, reclamation done, TX_RING_SIZE - 1
\* frames are in flight; the frames accepted and not yet reclaimed are the
\* ring distance from tx_head_ to tx_tail_, never more than TX_RING_SIZE - 1,
\* and only descriptors the device completed have been reclaimed.
C4_FullIffNextTailMeetsHead ==
    /\ last.op = "send" => (~last.ok <=> last.infl = TX_RING_SIZE - 1)
    /\ initialized_ => /\ InFlight = RingDist(tx_head_, tx_tail_, TX_RING_SIZE)
                       /\ InFlight <= TX_RING_SIZE - 1
                       /\ reclaimed <= hwTxDone
C4_Witness ==
    /\ last.op = "send" /\ ~last.ok
    /\ InFlight = TX_RING_SIZE - 1
    /\ reclaimed > 0

\* C7 as stated: a frame accepted by send_packet and looped back by the
\* harness comes out of the next receive_packet with the same length and bytes.
C7_LoopbackRoundTrip ==
    (last.op = "recv" /\ last.ok /\ last.src # NoFrame)
        => (last.len = last.src.len /\ last.data = last.src.data)

\* C10: packets_sent_ is the number of send_packet calls that returned
\* success and packets_received_ the number of receive_packet calls that
\* returned a packet.
C10_CountersMatchSuccesses ==
    /\ packets_sent_ = sendOk
    /\ packets_received_ = recvOk
C10_Witness ==
    /\ sendOk > 0 /\ sendCalls > sendOk
    /\ recvOk > 0 /\ recvCalls > recvOk
    /\ packets_sent_ = sendOk /\ packets_received_ = recvOk

\* C8: reset_device reads REG_CTRL at most RESET_POLLS times; while it keeps
\* polling every read so far showed CTRL_RESET set; it returns true on the
\* first read that shows the bit clear, and returns false, failing initialize
\* with nothing allocated and the device not ready, after exactly RESET_POLLS
\* reads that all showed the bit set.
C8_BoundedResetWait ==
    /\ pc = "reset_poll" =>
          /\ loc.reads = loc.i /\ loc.reads <= RESET_POLLS /\ loc.clear = 0
    /\ loc.op = "reset_done" =>
          /\ loc.reads <= RESET_POLLS
          /\ loc.ok => loc.clear = 1
          /\ ~loc.ok => /\ loc.reads = RESET_POLLS /\ loc.clear = 0
                        /\ pc = "failed" /\ ~initialized_
                        /\ tx_ring_ = << >> /\ rx_ring_ = << >>
C8_Witness ==
    /\ loc.op = "reset_done" /\ ~loc.ok
    /\ loc.reads = RESET_POLLS
    /\ pc = "failed"
    /\ BitAnd(regs[REG_CTRL], CTRL_RESET) # 0

\* C5 as stated: every slot has one owner.  A successful send_packet wrote
\* buffer bytes and descriptor fields only in slots that were not in flight;
\* receive_packet hands out a buffer only after it observed the completion
\* flag; every slot the device owns on the TX side is one software submitted
\* and has not reclaimed, and is not the slot software fills next; the RX slot
\* software inspects next and the RX slot it handed out last lie outside the
\* range released to the device.
C5_ExclusiveOwnership ==
    /\ (last.op = "send" /\ last.ok) => last.touched \cap last.inflight = {}
    /\ (last.op = "recv" /\ last.ok) => last.dd
    /\ (initialized_ /\ pc = "idle") =>
          /\ HwTxOwned \subseteq RingRange(tx_head_, tx_tail_, TX_RING_SIZE)
          /\ tx_tail_ \notin HwTxOwned
          /\ HasDD(rx_ring_[rx_head_].status) => rx_head_ \notin HwRxOwned
          /\ recvOk > 0 => retreat(rx_head_, RX_RING_SIZE) \notin HwRxOwned

\* the stores of the thread that are not yet visible and go to TX slot i
PendingTxStores(i) ==
    { k \in 1 .. Len(sb) : sb[k].kind \in {"tx_buffer", "tx_desc", "tx_status"}
                           /\ sb[k].slot = i }

\* C6 as stated: in every interleaving, a TX slot the device sees as
\* published already holds, in memory visible to the device, the descriptor
\* fields and all the bytes of the frame accepted for it, with no store to it
\* still on its way; and receive_packet reads the length and hands out the
\* buffer only after the status word it loaded carried the completion flag.
C6_PublishedSlotHoldsFrame ==
    /\ initialized_ =>
          \A i \in HwTxOwned :
              /\ PendingTxStores(i) = {}
              /\ tx_ring_[i].buffer_addr = TxAddr(TxSlotOffset(i))
              /\ tx_ring_[i].cmd_type_len = CmdTypeLen(sub[i].len)
              /\ ReadBytes(tx_buffers_, TxSlotOffset(i), sub[i].len) = sub[i].data
    /\ pc \in {"recv_take", "recv_doorbell"} => HasDD(loc.status)
    /\ (last.op = "recv" /\ last.ok) => last.dd

RecvPcs == {"recv_load", "recv_take", "recv_doorbell"}
RecvStep == recv_load \/ recv_take \/ recv_doorbell
DrainStep == \E k \in 1 .. Len(sb) : DrainStore(k)

\* C9: a receive_packet call in progress has executed at most two statements
\* and goes through no statement twice, and whatever the device has done its
\* next statement can execute, at the latest once the one store it issued
\* itself is visible; so every call ends after at most three statements.
C9_ReceiveNeverBlocks ==
    pc \in RecvPcs =>
        /\ pc # "recv_load"
        /\ loc.steps <= 2
        /\ Len(sb) <= 1
        /\ (ENABLED RecvStep) \/ (ENABLED DrainStep)
C9_Witness ==
    /\ pc = "recv_doorbell"
    /\ sb # << >>
    /\ HasDD(rx_ring_[rx_head_].status)
    /\ recvCalls > recvOk + 1


\* C11: packets_received_ and packets_sent_ never decrease and are never
\* reset: every step (receive, send, failed send, initialize, repeated
\* initialize, cleanup, a device event) leaves each counter as it was or
\* one higher.
C11_CountersMonotonic ==
    [][/\ packets_sent_' \in {packets_sent_, packets_sent_ + 1}
       /\ packets_received_' \in {packets_received_, packets_received_ + 1}]_vars
\* both counters are above zero when a repeated initialize returns
C11_Witness ==
    /\ last.op = "initialize"
    /\ env.inits = 2
    /\ packets_sent_ >= 1
    /\ packets_received_ >= 1

\* C12: teardown is idempotent: a second cleanup has no effect; it unmaps
\* nothing, passes no ring or buffer pointer to free() again and writes no
\* device register.
C12_SecondCleanupHasNoEffect ==
    (last.op = "cleanup" /\ env.cleanups = 2)
        => /\ last.writes = 0
           /\ last.unmaps = 0
           /\ last.frees = {}
           /\ env.doubleFree = 0 /\ env.badUnmap = 0 /\ env.strayMmio = 0

\* C13: teardown after a partially failed initialize: wherever the one
\* initialize call on the handle failed (open, mmap, reset timeout, any of the
\* four allocations), the cleanup that follows frees exactly the blocks that
\* were allocated, unmaps the window exactly when it was mapped, frees and
\* unmaps nothing twice, writes no register, and leaves nothing allocated,
\* mapped or leaked.
C13_CleanupAfterFailedInitialize ==
    (last.op = "cleanup" /\ env.inits = 1 /\ env.cleanups = 1 /\ ~initialized_)
        => /\ pc = "torn_down"
           /\ last.frees = last.live
           /\ (last.unmaps = 1) <=> (last.window = "live")
           /\ last.writes = 0
           /\ env.doubleFree = 0 /\ env.badUnmap = 0 /\ env.strayMmio = 0
           /\ env.leaked = 0
           /\ \A b \in Blocks : env.blocks[b] # "live"
           /\ env.window # "live"
\* the last of the four allocations failed: three blocks and the window are
\* released
C13_Witness ==
    /\ last.op = "cleanup" /\ env.inits = 1 /\ env.cleanups = 1 /\ ~initialized_
    /\ last.frees = {"rx_ring_", "tx_ring_", "rx_buffers_"}
    /\ last.unmaps = 1
    /\ tx_buffers_ = << >>

\* C14: initialize keeps the order disable -> configure rings -> enable:
\* when the RX and the TX ring-geometry registers are written both data paths
\* are disabled and no enable bit has been written; the enable bits are
\* written only after all ten geometry writes; the handle is marked ready
\* only with both enable bits set.
C14_ConfigureBeforeEnable ==
    /\ pc \in {"configure_rx", "configure_tx"} =>
          /\ ~RxEnabled /\ ~TxEnabled
          /\ last.enables = 0
    /\ (pc \in {"enable_rx", "enable_tx", "mark_ready"} \/ initialized_) =>
          /\ last.geometry = 10
          /\ regs[REG_RX_DESC_LEN] = RX_RING_SIZE * 64
          /\ regs[REG_RX_DESC_TAIL] = RX_RING_SIZE - 1
          /\ regs[REG_TX_DESC_LEN] = TX_RING_SIZE * 64
          /\ regs[REG_TX_DESC_TAIL] = 0
    /\ pc = "enable_rx" => ~RxEnabled /\ ~TxEnabled
    /\ pc = "enable_tx" => RxEnabled /\ ~TxEnabled
    /\ (pc = "mark_ready" \/ initialized_) =>
          /\ RxEnabled /\ TxEnabled /\ last.enables = 2
          /\ last.steps = << "map_bar0", "reset_device", "allocate_rings",
                             "configure_rx", "configure_tx", "enable_rx", "enable_tx" >>
\* the RX ring is configured and the TX ring is about to be, on a device that
\* an earlier owner had left enabled
C14_Witness ==
    /\ pc = "configure_tx"
    /\ last.leftOn
    /\ last.geometry = 5
    /\ regs[REG_RX_DESC_TAIL] = RX_RING_SIZE - 1
    /\ ~RxEnabled

\* C15: initialize succeeds only if map_bar0, reset_device and allocate_rings
\* succeed, run once each in that order, and it fails fast: after a failed
\* mapping no register is accessed; after a reset timeout nothing is
\* allocated; after a reset timeout or a failed allocation no ring register
\* is written and no data path is enabled by the driver; a failed call leaves
\* the handle not marked ready.
C15_InitializeFailsFast ==
    (last.op = "initialize" /\ last.done) =>
        IF last.ok
        THEN /\ initialized_
             /\ bar0_base_ = "mapped" /\ loc.ok /\ last.allocs = 4
             /\ \A b \in Blocks : env.blocks[b] = "live"
             /\ last.steps = << "map_bar0", "reset_device", "allocate_rings",
                                "configure_rx", "configure_tx", "enable_rx", "enable_tx" >>
        ELSE /\ ~initialized_ /\ pc = "failed"
             /\ \/ /\ last.steps = << "map_bar0" >>
                   /\ bar0_base_ \in {"nullptr", "MAP_FAILED"}
                   /\ last.mmio = 0 /\ last.allocs = 0
                \/ /\ last.steps = << "map_bar0", "reset_device" >>
                   /\ ~loc.ok /\ last.mmio = 1 + RESET_POLLS
                   /\ last.allocs = 0
                   /\ \A b \in Blocks : env.blocks[b] = "null"
                \/ /\ last.steps = << "map_bar0", "reset_device", "allocate_rings" >>
                   /\ \E b \in Blocks : env.blocks[b] = "null"
             /\ last.geometry = 0 /\ last.enables = 0
             /\ ~RxEnabled \/ last.steps = << "map_bar0" >> \/ ~loc.ok
             /\ regs[REG_RX_DESC_LEN] = 0 /\ regs[REG_TX_DESC_LEN] = 0
\* the third allocation failed: initialize returned false with two blocks
\* allocated, no ring register written, nothing enabled
C15_Witness ==
    /\ last.op = "initialize" /\ last.done /\ ~last.ok
    /\ last.allocs = 3
    /\ rx_buffers_ = << >> /\ tx_ring_ # << >>
    /\ pc = "failed"

\* C16: when a successful receive_packet returns the buffer to its caller the
\* descriptor is recycled already: its status reads 0 in memory (the store
\* has left the store buffer), rx_head_ is one past it and the RX tail
\* register names it; the handle is ready for the next call, whatever the
\* caller does with the frame; and a frame is handed out only for a status
\* that showed DD, so never more frames than the device delivered.
C16_RecycledBeforeHandOver ==
    [][recvOk' = recvOk + 1 =>
          /\ last'.op = "recv" /\ last'.ok /\ last'.dd
          /\ sb' = << >>
          /\ rx_ring_'[last'.slot].status = 0
          /\ rx_head_' = advance(last'.slot, RX_RING_SIZE)
          /\ regs'[REG_RX_DESC_TAIL] = last'.slot
          /\ pc' = "idle"
          /\ recvOk' <= hwRxDone']_vars
\* the second of two frames has been handed out
C16_Witness ==
    /\ last.op = "recv" /\ last.ok
    /\ recvOk = 2 /\ hwRxDone = 2
    /\ last.slot = 1

\* C17 as stated: send_packet gives explicit backpressure and never drops a
\* frame silently.  Every call returns; a call that returns true wrote the
\* descriptor at the old tx_tail_, holds the frame's bytes in that slot,
\* advanced tx_tail_ by one and wrote the TX tail register, and left every
\* frame that is in flight (accepted, not yet completed by the device) as it
\* was; a call that returns false found the ring full after reclamation and
\* changed nothing but tx_head_.
C17_AcceptedFramesStayPlaced ==
    [][sendCalls' = sendCalls + 1 =>
          /\ last'.op = "send"
          /\ IF last'.ok
             THEN /\ sendOk' = sendOk + 1
                  /\ last'.slot = tx_tail_
                  /\ tx_ring_'[tx_tail_] = FilledTxDescriptor(tx_tail_, last'.len)
                  /\ ReadBytes(tx_buffers_', TxSlotOffset(tx_tail_), last'.len)
                        = sub'[tx_tail_].data
                  /\ tx_tail_' = advance(tx_tail_, TX_RING_SIZE)
                  /\ regs'[REG_TX_DESC_TAIL] = tx_tail_'
                  /\ \A i \in HwTxOwned :
                        /\ tx_ring_'[i] = tx_ring_[i]
                        /\ ReadBytes(tx_buffers_', TxSlotOffset(i), sub[i].len)
                              = ReadBytes(tx_buffers_, TxSlotOffset(i), sub[i].len)
             ELSE /\ TxRingFull(advance(tx_tail_, TX_RING_SIZE), tx_head_')
                  /\ tx_head_' = reclaim_tx_descriptors(tx_head_, tx_tail_, tx_ring_)
                  /\ UNCHANGED << tx_tail_, tx_ring_, tx_buffers_, regs, sendOk, sub >>]_vars

\* C18 as stated: two handles share no mutable state.  Whatever the calls and
\* device events on the other handle, each handle's cursors, descriptors,
\* buffers, registers, counters and call returns are those it has when its own
\* operations run alone.
C18_InstancesIndependent ==
    \A self \in Instances : inst[self] = alone[self]

\* C19: a receive_packet call that returns true hands out the buffer slot at
\* the rx_head_ it found (the bytes at rx_buffers_ + rx_head_ *
\* MAX_PACKET_SIZE) with the length stored in that descriptor, sets that
\* descriptor's status to 0, advances rx_head_ by one modulo the ring size,
\* writes the old rx_head_ to the RX tail register and adds one to
\* packets_received_; no other descriptor, register or cursor changes.
C19_ReceiveEffect ==
    [][recvOk' = recvOk + 1 =>
          /\ last'.op = "recv" /\ last'.ok
          /\ HasDD(rx_ring_[rx_head_].status)
          /\ last'.slot = rx_head_
          /\ last'.len = rx_ring_[rx_head_].length
          /\ last'.data = ReadBytes(rx_buffers_, rx_head_ * MAX_PACKET_SIZE, last'.len)
          /\ rx_ring_' = [rx_ring_ EXCEPT ![rx_head_].status = 0]
          /\ rx_head_' = (rx_head_ + 1) % RX_RING_SIZE
          /\ regs' = [regs EXCEPT ![REG_RX_DESC_TAIL] = rx_head_]
          /\ packets_received_' = packets_received_ + 1
          /\ UNCHANGED << rx_buffers_, tx_ring_, tx_buffers_, tx_head_, tx_tail_,
                          packets_sent_ >>]_vars
\* the second frame, a full slot long, has been handed out from slot 1
C19_Witness ==
    /\ last.op = "recv" /\ last.ok
    /\ last.slot = 1 /\ last.len = MAX_PACKET_SIZE
    /\ packets_received_ = 2
    /\ rx_head_ = 2

\* C20: a receive_packet call that finds no completion flag in the descriptor
\* at rx_head_ returns false and changes nothing: no member of the handle
\* (cursors, descriptors, buffers, counters), no register, and it hands out no
\* buffer and no length; this whatever the descriptors at other indices hold.
C20_NoPacketChangesNothing ==
    [][(recvCalls' = recvCalls + 1
           /\ BitAnd(rx_ring_[rx_head_].status, DESC_STATUS_DD) = 0) =>
          /\ last'.op = "recv" /\ ~last'.ok
          /\ last'.len = 0 /\ last'.data = << >>
          /\ recvOk' = recvOk
          /\ UNCHANGED << driver, regs >>]_vars
\* a call returned false at rx_head_ while the descriptor at another index
\* carries a completion flag
C20_Witness ==
    /\ last.op = "recv" /\ ~last.ok
    /\ last.slot = rx_head_
    /\ ~HasDD(rx_ring_[rx_head_].status)
    /\ \E i \in 0 .. RX_RING_SIZE - 1 : i # rx_head_ /\ HasDD(rx_ring_[i].status)

\* C21 as stated: a send_packet call that returns true with producer index t
\* leaves the frame's bytes in TX buffer slot t, descriptor t with the address
\* of slot t, the length with the end-of-frame flag and status 0, tx_tail_ at
\* (t + 1) & (N - 1), that value in the TX tail register and packets_sent_
\* one higher; every other descriptor and every byte outside slot t is as
\* before.
C21_SendEffect ==
    [][sendOk' = sendOk + 1 =>
          /\ last'.op = "send" /\ last'.ok /\ last'.slot = tx_tail_
          /\ ReadBytes(tx_buffers_', tx_tail_ * MAX_PACKET_SIZE, last'.len)
                = sub'[tx_tail_].data
          /\ tx_ring_' = [tx_ring_ EXCEPT
                             ![tx_tail_] = [buffer_addr |-> TxAddr(tx_tail_ * MAX_PACKET_SIZE),
                                            cmd_type_len |-> BitOr(last'.len, DESC_STATUS_EOP),
                                            status |-> 0]]
          /\ tx_tail_' = (tx_tail_ + 1) % TX_RING_SIZE
          /\ regs' = [regs EXCEPT ![REG_TX_DESC_TAIL] = tx_tail_']
          /\ packets_sent_' = packets_sent_ + 1
          /\ \A a \in DOMAIN tx_buffers_ :
                a \div MAX_PACKET_SIZE # tx_tail_ => tx_buffers_'[a] = tx_buffers_[a]
          /\ UNCHANGED << rx_ring_, rx_buffers_, rx_head_, packets_received_ >>]_vars

\* C22: TX reclamation is safe.  In a send_packet call tx_head_ moves only
\* when the ring was found full, only over descriptors that were in flight and
\* carry the completion flag, never past tx_tail_, and it stops at the first
\* descriptor without the flag whatever the later ones carry.  The flags
\* found on in-flight descriptors are those the device set since their
\* submission (as many as completions not yet reclaimed), so no flag left from
\* an earlier use of a slot is counted.
C22_ReclaimIsSafe ==
    /\ [][sendCalls' = sendCalls + 1 =>
             LET passed == RingRange(tx_head_, tx_head_', TX_RING_SIZE)
                 wasFull == (tx_tail_ + 1) % TX_RING_SIZE = tx_head_
             IN  /\ passed \subseteq RingRange(tx_head_, tx_tail_, TX_RING_SIZE)
                 /\ \A i \in passed : BitAnd(tx_ring_[i].status, DESC_STATUS_DD) # 0
                 /\ reclaimed' = reclaimed + Cardinality(passed)
                 /\ ~wasFull => tx_head_' = tx_head_
                 /\ (wasFull /\ tx_head_' # tx_tail_) =>
                       BitAnd(tx_ring_[tx_head_'].status, DESC_STATUS_DD) = 0]_vars
    /\ [](initialized_ =>
             /\ reclaimed <= hwTxDone
             /\ Cardinality({ i \in RingRange(tx_head_, tx_tail_, TX_RING_SIZE) :
                                BitAnd(tx_ring_[i].status, DESC_STATUS_DD) # 0 })
                   = hwTxDone - reclaimed)
\* a call found the ring full and reclaimed one descriptor, stopping at a
\* descriptor without the flag although a later one carries it
C22_Witness ==
    /\ last.op = "send" /\ last.full /\ last.ok
    /\ reclaimed = 1 /\ hwTxDone = 2
    /\ ~HasDD(tx_ring_[tx_head_].status)
    /\ \E i \in RingRange(tx_head_, tx_tail_, TX_RING_SIZE) : HasDD(tx_ring_[i].status)

\* C23 as stated: send_packet never writes outside the buffer slot at the
\* producer index.  For every length a call is given, the bytes it copies lie
\* inside slot tx_tail_: no byte of another slot changes, no byte goes past
\* the end of tx_buffers_, and the call returns.
C23_CopyStaysInSlot ==
    [][sendCalls' = sendCalls + 1 =>
          /\ pc' # "faulted"
          /\ \A a \in DOMAIN tx_buffers_ :
                a \div MAX_PACKET_SIZE # tx_tail_ => tx_buffers_'[a] = tx_buffers_[a]
          /\ last'.ok =>
                /\ ~Overruns(tx_buffers_, tx_tail_ * MAX_PACKET_SIZE, last'.len)
                /\ \A k \in 0 .. last'.len - 1 :
                      (tx_tail_ * MAX_PACKET_SIZE + k) \div MAX_PACKET_SIZE = tx_tail_]_vars

\* C24 as stated: after a successful send_packet the descriptor carries the
\* frame length and the end-of-frame flag as separately recoverable fields.
\* Every descriptor submitted has the flag set; descriptors submitted with
\* different lengths (0 to MAX_PACKET_SIZE) hold different cmd_type_len
\* words; and one way of reading the length field gives back, for every
\* descriptor submitted, the length that was passed.
C24_LengthAndFlagRecoverable ==
    LET submitted == { i \in 0 .. TX_RING_SIZE - 1 :
                         sub[i] # NoFrame /\ sub[i].len <= MAX_PACKET_SIZE }
    IN  initialized_ =>
          /\ \A i \in submitted :
                BitAnd(tx_ring_[i].cmd_type_len, DESC_STATUS_EOP) # 0
          /\ \A i, j \in submitted :
                sub[i].len # sub[j].len =>
                    tx_ring_[i].cmd_type_len # tx_ring_[j].cmd_type_len
          /\ \E dec \in Decoders : \A i \in submitted :
                DecodeLength(dec, tx_ring_[i].cmd_type_len) = sub[i].len


\* C25: the cursors rx_head_, tx_head_ and tx_tail_ always lie in [0, N); a
\* step that moves rx_head_ moves it one slot forward, past a descriptor the
\* device completed, and counts one received packet; a step that moves
\* tx_tail_ moves it one slot forward and counts one sent packet; a step that
\* moves tx_head_ moves it forward over completed in-flight descriptors only,
\* one slot for each, and never past tx_tail_.
C25_CursorsAdvanceBySlot ==
    /\ [](/\ rx_head_ \in 0 .. RX_RING_SIZE - 1
          /\ tx_head_ \in 0 .. TX_RING_SIZE - 1
          /\ tx_tail_ \in 0 .. TX_RING_SIZE - 1)
    /\ [][/\ rx_head_' # rx_head_ =>
                /\ rx_head_' = (rx_head_ + 1) % RX_RING_SIZE
                /\ HasDD(rx_ring_[rx_head_].status)
                /\ packets_received_' = packets_received_ + 1
          /\ tx_tail_' # tx_tail_ =>
                /\ tx_tail_' = (tx_tail_ + 1) % TX_RING_SIZE
                /\ packets_sent_' = packets_sent_ + 1
          /\ LET moved == (tx_head_' - tx_head_ + TX_RING_SIZE) % TX_RING_SIZE
             IN  /\ moved <= (tx_tail_ - tx_head_ + TX_RING_SIZE) % TX_RING_SIZE
                 /\ \A k \in 0 .. moved - 1 :
                        HasDD(tx_ring_[(tx_head_ + k) % TX_RING_SIZE].status)
         ]_vars

\* each cursor has gone round the ring: rx_head_ and tx_tail_ wrapped from
\* N - 1 to 0, and the last send reclaimed up to tx_head_ = 1
C25_Witness ==
    /\ initialized_
    /\ packets_received_ = RX_RING_SIZE /\ rx_head_ = 0
    /\ packets_sent_ = TX_RING_SIZE /\ tx_tail_ = 0
    /\ tx_head_ = 1
    /\ last.op = "send" /\ last.ok


\* C26: once initialize has succeeded, RX descriptor i names RX buffer slot i
\* for every i and no step changes that; every TX descriptor submitted at
\* index i names TX buffer slot i; and no step of the data path allocates,
\* frees or resizes a ring or a buffer pool.
C26_RingsAndPoolsParallel ==
    /\ [](initialized_ =>
            /\ \A i \in 0 .. RX_RING_SIZE - 1 :
                   rx_ring_[i].buffer_addr = [pool |-> "rx", off |-> i * MAX_PACKET_SIZE]
            /\ \A i \in 0 .. TX_RING_SIZE - 1 :
                   sub[i] # NoFrame =>
                       tx_ring_[i].buffer_addr =
                           [pool |-> "tx", off |-> i * MAX_PACKET_SIZE])
    /\ [][initialized_ =>
            /\ env' = env
            /\ DOMAIN rx_ring_' = DOMAIN rx_ring_
            /\ DOMAIN tx_ring_' = DOMAIN tx_ring_
            /\ DOMAIN rx_buffers_' = DOMAIN rx_buffers_
            /\ DOMAIN tx_buffers_' = DOMAIN tx_buffers_
            /\ \A i \in 0 .. RX_RING_SIZE - 1 :
                   rx_ring_'[i].buffer_addr = rx_ring_[i].buffer_addr
         ]_vars

\* a frame was received from slot 0 after frames were submitted at TX
\* indices 0 and 1
C26_Witness ==
    /\ initialized_
    /\ last.op = "recv" /\ last.ok /\ last.slot = 0
    /\ sub[0] # NoFrame /\ sub[1] # NoFrame
    /\ tx_ring_[1].buffer_addr = [pool |-> "tx", off |-> MAX_PACKET_SIZE]
    /\ rx_ring_[0].buffer_addr = [pool |-> "rx", off |-> 0]
    /\ rx_ring_[0].status = 0


SendWouldFail ==
    /\ initialized_ /\ pc = "idle"
    /\ TxRingFull(advance(tx_tail_, TX_RING_SIZE),
                  HeadAfterFullCheck(advance(tx_tail_, TX_RING_SIZE)))

\* C28: with a device that sets the completion flag of every published TX
\* descriptor, in ring order, and a caller that calls send_packet again after
\* it returned false, a send_packet that returned false is followed by one
\* that returns true; and whenever the ring is so full that send_packet would
\* return false, it later is not.
C28_RetryEventuallySucceeds ==
    /\ (last.op = "send" /\ ~last.ok) ~> (last.op = "send" /\ last.ok)
    /\ SendWouldFail ~> ~SendWouldFail

\* a send_packet that directly follows one that returned false returns true,
\* on a ring that has gone round
C28_Witness ==
    /\ initialized_
    /\ last.op = "send" /\ last.ok /\ last.retry
    /\ packets_sent_ > TX_RING_SIZE


\* the device holds no RX descriptor it may store a frame into
RxStarved == RxEnabled /\ HwRxOwned = {}

\* C29: with a device that stores frames only into the descriptors released
\* through the RX tail register and a caller that keeps calling
\* receive_packet, every frame the device completed is eventually returned
\* (the k-th completion is followed by the k-th successful receive_packet),
\* and whenever the device has no released descriptor left it later has one.
C29_RxRingLiveness ==
    /\ \A k \in 1 .. MaxPollFrames : (hwRxDone >= k) ~> (packets_received_ >= k)
    /\ RxStarved ~> ~RxStarved

\* the caller has received every frame the device completed, more frames
\* than the ring has slots, and its last receive_packet left the device a
\* released descriptor
C29_Witness ==
    /\ initialized_
    /\ last.op = "recv" /\ last.ok
    /\ packets_received_ > RX_RING_SIZE
    /\ packets_received_ = hwRxDone
    /\ HwRxOwned # {}


\* a send_packet call is in progress
InSend == pc \in {"send_reclaim", "send_fill", "send_release", "send_barrier",
                  "send_doorbell"}

\* C30: send_packet terminates without waiting on the device.  While the
\* call is in its reclamation loop it has advanced tx_head_ at most N - 1
\* times; the whole call takes at most N + 4 statements; at every statement of
\* the call the processor has a step to take that needs nothing from the
\* device; and with the processor executing (the device may never act) every
\* call that was begun returns.
C30_SendTerminates ==
    /\ [](pc = "send_reclaim" => loc.steps - 1 <= TX_RING_SIZE - 1)
    /\ [](InSend => loc.steps <= TX_RING_SIZE + 4)
    /\ [](InSend => ENABLED <<SendSteps>>_vars)
    /\ InSend ~> ~InSend

\* a call found the ring full, advanced tx_head_ over every descriptor in
\* flight and reached its copy
C30_Witness ==
    /\ pc = "send_fill"
    /\ loc.entry.full
    /\ loc.steps = TX_RING_SIZE + 1
    /\ tx_head_ = tx_tail_


\* C31: frames are delivered in ring order, exactly once.  The k-th
\* successful receive_packet returns slot (k - 1) mod N, which carries the
\* completion flag the device set (the call clears it, so the slot is returned
\* again only after the device set it anew) and holds the k-th frame the
\* device stored; the completed slots are at all times the ones from rx_head_
\* up to the device's head, as many as frames stored and not yet returned.
C31_DeliveredInOrderOnce ==
    /\ [][packets_received_' # packets_received_ =>
             LET slot == packets_received_ % RX_RING_SIZE
             IN  /\ packets_received_' = packets_received_ + 1
                 /\ last'.op = "recv" /\ last'.ok /\ last'.slot = slot
                 /\ rx_head_ = slot
                 /\ BitAnd(rx_ring_[slot].status, DESC_STATUS_DD) # 0
                 /\ BitAnd(rx_ring_'[slot].status, DESC_STATUS_DD) = 0
                 /\ ReadBytes(rx_buffers_, slot * MAX_PACKET_SIZE, rx_ring_[slot].length)
                       = Payload(packets_received_, 1)
         ]_vars
    /\ [](initialized_ =>
            /\ { i \in 0 .. RX_RING_SIZE - 1 :
                   BitAnd(rx_ring_[i].status, DESC_STATUS_DD) # 0 }
                  = RingRange(rx_head_, regs[REG_RX_DESC_HEAD], RX_RING_SIZE)
            /\ hwRxDone - packets_received_
                  = RingDist(rx_head_, regs[REG_RX_DESC_HEAD], RX_RING_SIZE))

\* the receive_packet after one turn of the ring returns slot 0 again
C31_Witness ==
    /\ initialized_
    /\ last.op = "recv" /\ last.ok /\ last.slot = 0
    /\ packets_received_ = RX_RING_SIZE + 1


\* the registers the device reads agree with the driver's cursors
RegistersAgree ==
    /\ regs[REG_TX_DESC_TAIL] = tx_tail_
    /\ regs[REG_RX_DESC_TAIL] = (rx_head_ + RX_RING_SIZE - 1) % RX_RING_SIZE

\* C32 as stated: a handle that is marked ready with no call in progress
\* has the TX tail register equal to tx_tail_ and the RX tail register equal
\* to (rx_head_ - 1) & (N - 1): every successful initialize, a repeated one
\* included, leaves them so, and every send_packet and receive_packet that
\* finds them so leaves them so.
C32_RegistersAgreeWithCursors ==
    /\ [][(env'.inits = env.inits + 1 /\ initialized_' /\ pc' = "idle"
             /\ last'.op = "initialize" /\ last'.ok)
                => RegistersAgree']_vars
    /\ [][((sendCalls' # sendCalls \/ recvCalls' # recvCalls)
             /\ initialized_ /\ pc' = "idle" /\ RegistersAgree)
                => RegistersAgree']_vars


\* the slot the last successful receive_packet handed to the caller
ReturnedSlot == (rx_head_ + RX_RING_SIZE - 1) % RX_RING_SIZE

\* C33: the buffer returned by receive_packet stays out of the device's reach
\* until the next successful receive_packet.  Once a slot has been returned,
\* the RX tail register holds that slot's index, the slot is not among the
\* descriptors released to the device, its descriptor carries no completion
\* flag, and no step other than the next successful receive_packet changes a
\* byte of its buffer.
C33_ReturnedBufferOutOfReach ==
    /\ [](initialized_ /\ packets_received_ > 0 =>
            /\ regs[REG_RX_DESC_TAIL] = ReturnedSlot
            /\ ReturnedSlot \notin HwRxOwned
            /\ BitAnd(rx_ring_[ReturnedSlot].status, DESC_STATUS_DD) = 0)
    /\ [][initialized_ /\ packets_received_ > 0 =>
            \A a \in DOMAIN rx_buffers_ :
                a \div MAX_PACKET_SIZE = ReturnedSlot => rx_buffers_'[a] = rx_buffers_[a]
         ]_vars

\* the device has filled every descriptor released to it, all around the
\* slot the caller still holds
C33_Witness ==
    /\ initialized_
    /\ last.op = "recv" /\ last.ok /\ last.slot = ReturnedSlot
    /\ packets_received_ >= 2
    /\ RxEnabled /\ HwRxOwned = {}
    /\ hwRxDone = packets_received_ + RX_RING_SIZE - 1
    /\ \A i \in 0 .. RX_RING_SIZE - 1 :
           i # ReturnedSlot => BitAnd(rx_ring_[i].status, DESC_STATUS_DD) # 0


\* C34: a send_packet that returns false leaves the whole state as it was:
\* tx_head_, tx_tail_, every TX descriptor, every byte of the TX buffers, the
\* registers and packets_sent_ (the RX side too).
C34_FailedSendChangesNothing ==
    [][(sendCalls' = sendCalls + 1 /\ last'.op = "send" /\ ~last'.ok) =>
          /\ tx_head_' = tx_head_
          /\ tx_tail_' = tx_tail_
          /\ tx_ring_' = tx_ring_
          /\ tx_buffers_' = tx_buffers_
          /\ regs' = regs
          /\ packets_sent_' = packets_sent_
          /\ reclaimed' = reclaimed
          /\ UNCHANGED << rx_ring_, rx_buffers_, rx_head_, packets_received_,
                          initialized_, bar0_base_ >>
      ]_vars

\* a send_packet returned false on a full ring whose oldest descriptor is not
\* completed while a later one is
C34_Witness ==
    /\ initialized_
    /\ last.op = "send" /\ ~last.ok /\ last.full
    /\ (tx_tail_ + 1) % TX_RING_SIZE = tx_head_
    /\ ~HasDD(tx_ring_[tx_head_].status)
    /\ HasDD(tx_ring_[(tx_head_ + 1) % TX_RING_SIZE].status)


\* C35 as stated: resources are released exactly once across retries.  No
\* initialize call overwrites a live mapping or a live allocation (nothing is
\* ever leaked), and once the teardown that follows any sequence of initialize
\* calls is over, no mapping and no block is still live, nothing was unmapped
\* that was not mapped and nothing was freed twice.
C35_ReleasedExactlyOnce ==
    /\ env.leaked = 0
    /\ (pc = "torn_down" /\ env.cleanups = 1) =>
          /\ env.window # "live"
          /\ \A b \in Blocks : env.blocks[b] # "live"
          /\ env.doubleFree = 0
          /\ env.badUnmap = 0


\* C36 as stated: send_packet, receive_packet and is_link_up called on a
\* handle that is not marked ready access no ring, buffer or register memory
\* and report failure (false, no packet, link down); in particular the call
\* returns.
C36_UnreadyCallsTouchNothing ==
    (~initialized_ /\ last.op \in {"send", "recv", "is_link_up"}) =>
        /\ last.touched = {}
        /\ ~last.ok
        /\ ~last.ub
        /\ pc # "faulted"


\* C37 as stated: a send_packet that finds a free slot leaves tx_head_ and
\* every completion flag unchanged.
C37_FreeSlotSendKeepsFlags ==
    [][(sendCalls' = sendCalls + 1 /\ (tx_tail_ + 1) % TX_RING_SIZE # tx_head_) =>
          /\ tx_head_' = tx_head_
          /\ \A i \in 0 .. TX_RING_SIZE - 1 :
                 HasDD(tx_ring_'[i].status) = HasDD(tx_ring_[i].status)
      ]_vars

\* C37: reclamation is attempted only when the TX ring is full.  A
\* send_packet that finds a free slot leaves tx_head_ unchanged, reclaims
\* nothing, and leaves the completion flag of every descriptor unchanged
\* except that of the descriptor it submits, whose status word it clears (a
\* flag left there by the slot's previous use goes with it).
C37_FreeSlotSendKeepsOtherFlags ==
    [][(sendCalls' = sendCalls + 1 /\ (tx_tail_ + 1) % TX_RING_SIZE # tx_head_) =>
          /\ tx_head_' = tx_head_
          /\ reclaimed' = reclaimed
          /\ \A i \in 0 .. TX_RING_SIZE - 1 :
                 i # tx_tail_ => tx_ring_'[i].status = tx_ring_[i].status
          /\ last'.op = "send" => (last'.ok /\ tx_ring_'[tx_tail_].status = 0)
      ]_vars

\* a send_packet found a free slot and succeeded while the oldest descriptor
\* in flight was completed and waiting: it is still waiting
C37_Witness ==
    /\ initialized_
    /\ last.op = "send" /\ last.ok /\ ~last.full
    /\ hwTxDone >= 1 /\ reclaimed = 0
    /\ tx_head_ # tx_tail_
    /\ HasDD(tx_ring_[tx_head_].status)
====
